---- MODULE Spec2Model ----
(***************************************************************************)
(* Expense receipt matcher: the match-scoring engine, the Match rows and   *)
(* the auto-match policy (backend/routes/matches.js), and the receipt      *)
(* upload, text extraction and single-receipt auto-match                   *)
(* (backend/routes/receipts.js, kept here as src/unnamed/part_001).        *)
(*                                                                         *)
(* Conventions.  A nullable column or JS value is <<>> (null) or <<v>>.    *)
(* Money is an integer number of cents.  Text is a TLA+ string; its        *)
(* characters are read with SubSeq.                                        *)
(***************************************************************************)
EXTENDS Integers, Sequences, FiniteSets, Bags, TLC

Null == <<>>
Some(v) == <<v>>
Val(o) == o[1]

Abs(x) == IF x < 0 THEN -x ELSE x
Min(a, b) == IF a <= b THEN a ELSE b

(***************************************************************************)
(* String helpers (String.prototype.toLowerCase, includes, split).         *)
(***************************************************************************)
CharAt(s, i) == SubSeq(s, i, i)
CharsOf(str) == {CharAt(str, i) : i \in 1..Len(str)}

UpperChars == "ABCDEFGHIJKLMNOPQRSTUVWXYZ"
LowerChars == "abcdefghijklmnopqrstuvwxyz"
Digits == "0123456789"
UpperLetters == CharsOf(UpperChars)
LowerLetters == CharsOf(LowerChars)
DigitChars == CharsOf(Digits)

LowerCaseOf ==
    [c \in UpperLetters |->
        CharAt(LowerChars, CHOOSE i \in 1..Len(UpperChars) : CharAt(UpperChars, i) = c)]
DigitValueOf ==
    [c \in DigitChars |-> (CHOOSE i \in 1..Len(Digits) : CharAt(Digits, i) = c) - 1]

ToLowerChar(c) == IF c \in UpperLetters THEN LowerCaseOf[c] ELSE c

\* String.prototype.toLowerCase, on the characters lo..hi of s
RECURSIVE LowerCaseIn(_, _, _)
LowerCaseIn(s, lo, hi) ==
    IF lo > hi THEN ""
    ELSE IF lo = hi THEN ToLowerChar(CharAt(s, lo))
    ELSE LowerCaseIn(s, lo, (lo + hi) \div 2) \o LowerCaseIn(s, (lo + hi) \div 2 + 1, hi)

toLowerCase(s) == LowerCaseIn(s, 1, Len(s))

SpaceChars == {" ", "\n", "\t", "\r"}
IsSpace(c) == c \in SpaceChars
IsDigit(c) == c \in DigitChars
DigitVal(c) == DigitValueOf[c]
AllDigits(s) == \A i \in 1..Len(s) : IsDigit(CharAt(s, i))

RECURSIVE ParseNat(_, _)
ParseNat(s, acc) ==
    IF s = "" THEN acc ELSE ParseNat(Tail(s), acc * 10 + DigitVal(Head(s)))

\* haystack.includes(needle)
includes(haystack, needle) ==
    \E i \in 1..(Len(haystack) - Len(needle) + 1) :
        SubSeq(haystack, i, i + Len(needle) - 1) = needle

\* s.split(/\s+/): the pieces between maximal runs of white space, the empty
\* leading and trailing pieces included.
RECURSIVE SplitWs(_, _, _, _)
SplitWs(s, cur, acc, prevSpace) ==
    IF s = "" THEN Append(acc, cur)
    ELSE IF IsSpace(Head(s))
         THEN IF prevSpace THEN SplitWs(Tail(s), cur, acc, TRUE)
              ELSE SplitWs(Tail(s), "", Append(acc, cur), TRUE)
         ELSE SplitWs(Tail(s), cur \o Head(s), acc, FALSE)

\* s.split(sep) for a one-character separator out of seps
RECURSIVE SplitOn(_, _, _, _)
SplitOn(s, seps, cur, acc) ==
    IF s = "" THEN Append(acc, cur)
    ELSE IF Head(s) \in seps
         THEN SplitOn(Tail(s), seps, "", Append(acc, cur))
         ELSE SplitOn(Tail(s), seps, cur \o Head(s), acc)

(***************************************************************************)
(* Dates (moment).  A parsed date is the number of days since 1970-01-01.  *)
(***************************************************************************)
IsLeap(y) == (y % 4 = 0 /\ y % 100 # 0) \/ y % 400 = 0

DaysInMonth(y, m) ==
    IF m = 2 THEN (IF IsLeap(y) THEN 29 ELSE 28)
    ELSE IF m \in {4, 6, 9, 11} THEN 30 ELSE 31

DayNumber(y, m, d) ==
    LET yy  == IF m <= 2 THEN y - 1 ELSE y
        era == yy \div 400
        yoe == yy - era * 400
        mp  == IF m > 2 THEN m - 3 ELSE m + 9
        doy == (153 * mp + 2) \div 5 + d - 1
        doe == yoe * 365 + yoe \div 4 - yoe \div 100 + doy
    IN  era * 146097 + doe - 719468

ValidYMD(y, m, d) == m \in 1..12 /\ d >= 1 /\ d <= DaysInMonth(y, m)

\* moment's two-digit year pivot (parseTwoDigitYear)
TwoDigitYear(n) == IF n > 68 THEN 1900 + n ELSE 2000 + n

\* moment(receipt.extracted_date, ['MM/DD/YYYY', 'MM/DD/YY', 'M/D/YYYY', 'M/D/YY']):
\* month, day, year, numeric, separated by "/" or "-" (the forgiving parser skips
\* the separator); any other text is taken as not parseable.  Null = invalid.
ParseReceiptDate(s) ==
    LET p == SplitOn(s, {"/", "-"}, "", <<>>)
    IN  IF /\ Len(p) = 3
           /\ \A i \in 1..3 : Len(p[i]) >= 1 /\ AllDigits(p[i])
           /\ Len(p[1]) <= 2 /\ Len(p[2]) <= 2 /\ Len(p[3]) \in 2..4
        THEN LET m == ParseNat(p[1], 0)
                 d == ParseNat(p[2], 0)
                 y == IF Len(p[3]) = 2 THEN TwoDigitYear(ParseNat(p[3], 0))
                      ELSE ParseNat(p[3], 0)
             IN  IF ValidYMD(y, m, d) THEN Some(DayNumber(y, m, d)) ELSE Null
        ELSE Null

\* moment(transaction.transaction_date): the ledger stores YYYY-MM-DD
ParseTransactionDate(s) ==
    LET p == SplitOn(s, {"-"}, "", <<>>)
    IN  IF /\ Len(p) = 3
           /\ \A i \in 1..3 : AllDigits(p[i])
           /\ Len(p[1]) = 4 /\ Len(p[2]) = 2 /\ Len(p[3]) = 2
        THEN LET y == ParseNat(p[1], 0)
                 m == ParseNat(p[2], 0)
                 d == ParseNat(p[3], 0)
             IN  IF ValidYMD(y, m, d) THEN Some(DayNumber(y, m, d)) ELSE Null
        ELSE Null

(***************************************************************************)
(* The match-scoring engine: findPotentialMatches.                         *)
(***************************************************************************)
\* JS truthiness of a nullable number / string
TruthyNum(o) == o # Null /\ Val(o) # 0
TruthyStr(o) == o # Null /\ Val(o) # ""
\* a nullable number in arithmetic: null counts as 0
NumberOf(o) == IF o = Null THEN 0 ELSE Val(o)

StopWords == {"llc", "inc", "corp", "ltd", "company", "co"}
EligibleWord(word) == Len(word) > 2 /\ word \notin StopWords

\* the amount part with the last step ending before 10.00
AmountScoreBelowTen(amountDiff) ==
    IF amountDiff = 0 THEN <<60, <<(<<"Exact amount match">>)>> >>
    ELSE IF amountDiff <= 100 THEN <<40, <<(<<"Very close amount match">>)>> >>
    ELSE IF amountDiff <= 500 THEN <<20, <<(<<"Close amount match">>)>> >>
    ELSE IF amountDiff < 1000 THEN <<10, <<(<<"Approximate amount match">>)>> >>
    ELSE <<0, <<>> >>

\* amount part: <<points, reasons>>
AmountScore(amountDiff) ==
    IF amountDiff = 0 THEN <<60, <<(<<"Exact amount match">>)>> >>
    ELSE IF amountDiff <= 100 THEN <<40, <<(<<"Very close amount match">>)>> >>
    ELSE IF amountDiff <= 500 THEN <<20, <<(<<"Close amount match">>)>> >>
    ELSE IF amountDiff <= 1000 THEN <<10, <<(<<"Approximate amount match">>)>> >>
    ELSE <<0, <<>> >>

\* the date part with the last step ending at two days
DateScoreWithinTwo(receipt, transaction) ==
    IF TruthyStr(receipt.extracted_date) /\ TruthyStr(transaction.transaction_date)
    THEN LET receiptDate == ParseReceiptDate(Val(receipt.extracted_date))
             transactionDate == ParseTransactionDate(Val(transaction.transaction_date))
         IN  IF receiptDate # Null /\ transactionDate # Null
             THEN LET daysDiff == Abs(Val(receiptDate) - Val(transactionDate))
                  IN  IF daysDiff = 0 THEN <<25, <<(<<"Same date">>)>> >>
                      ELSE IF daysDiff <= 1 THEN <<15, <<(<<"Within 1 day">>)>> >>
                      ELSE IF daysDiff <= 2 THEN <<5, <<(<<"Within 3 days">>)>> >>
                      ELSE <<0, <<>> >>
             ELSE <<0, <<>> >>
    ELSE <<0, <<>> >>

\* date part: <<points, reasons>>
DateScore(receipt, transaction) ==
    IF TruthyStr(receipt.extracted_date) /\ TruthyStr(transaction.transaction_date)
    THEN LET receiptDate == ParseReceiptDate(Val(receipt.extracted_date))
             transactionDate == ParseTransactionDate(Val(transaction.transaction_date))
         IN  IF receiptDate # Null /\ transactionDate # Null
             THEN LET daysDiff == Abs(Val(receiptDate) - Val(transactionDate))
                  IN  IF daysDiff = 0 THEN <<25, <<(<<"Same date">>)>> >>
                      ELSE IF daysDiff <= 1 THEN <<15, <<(<<"Within 1 day">>)>> >>
                      ELSE IF daysDiff <= 3 THEN <<5, <<(<<"Within 3 days">>)>> >>
                      ELSE <<0, <<>> >>
             ELSE <<0, <<>> >>
    ELSE <<0, <<>> >>

\* the merchant part with every word of the merchant counted in the denominator
MerchantScoreOverAllWords(receipt, transaction) ==
    IF TruthyStr(receipt.extracted_merchant) /\ TruthyStr(transaction.description)
    THEN LET merchantWords == SplitWs(toLowerCase(Val(receipt.extracted_merchant)), "", <<>>, FALSE)
             descriptionLower == toLowerCase(Val(transaction.description))
             idx == 1..Len(merchantWords)
             matched == {i \in idx : EligibleWord(merchantWords[i])
                                     /\ includes(descriptionLower, merchantWords[i])}
             wordMatches == Cardinality(matched)
             significantWordMatches == Cardinality({i \in matched : Len(merchantWords[i]) >= 5})
             eligible == Len(merchantWords)
         IN  IF wordMatches > 0
             THEN <<Min(wordMatches * 15 + significantWordMatches * 5 * eligible, 20 * eligible),
                    eligible,
                    <<(<<"Merchant keywords match", wordMatches, significantWordMatches>>)>> >>
             ELSE <<0, 1, <<>> >>
    ELSE <<0, 1, <<>> >>

\* merchant part: <<numerator, denominator, reasons>>, the points being the
\* fraction numerator / denominator = min((wordMatches / eligible) * 15 + bonus, 20)
MerchantScore(receipt, transaction) ==
    IF TruthyStr(receipt.extracted_merchant) /\ TruthyStr(transaction.description)
    THEN LET merchantWords == SplitWs(toLowerCase(Val(receipt.extracted_merchant)), "", <<>>, FALSE)
             descriptionLower == toLowerCase(Val(transaction.description))
             idx == 1..Len(merchantWords)
             matched == {i \in idx : EligibleWord(merchantWords[i])
                                     /\ includes(descriptionLower, merchantWords[i])}
             wordMatches == Cardinality(matched)
             significantWordMatches == Cardinality({i \in matched : Len(merchantWords[i]) >= 5})
             eligible == Cardinality({i \in idx : EligibleWord(merchantWords[i])})
         IN  IF wordMatches > 0
             THEN <<Min(wordMatches * 15 + significantWordMatches * 5 * eligible, 20 * eligible),
                    eligible,
                    <<(<<"Merchant keywords match", wordMatches, significantWordMatches>>)>> >>
             ELSE <<0, 1, <<>> >>
    ELSE <<0, 1, <<>> >>

\* a rounding that stops at 100
RoundFractionToHundred(num, den) == Min((2 * num + den) \div (2 * den), 100)

\* Math.round of the non-negative fraction num / den
RoundFraction(num, den) == (2 * num + den) \div (2 * den)

\* the body of transactions.forEach taking the transaction's amount with its sign
ScoreTransactionSigned(receipt, transaction) ==
    LET amountDiff == Abs(transaction.amount - NumberOf(receipt.extracted_amount))
        a == AmountScore(amountDiff)
        d == DateScore(receipt, transaction)
        m == MerchantScore(receipt, transaction)
        num == (a[1] + d[1]) * m[2] + m[1]
        den == m[2]
    IN  IF num >= 10 * den
        THEN << [transaction |-> transaction,
                 confidence  |-> RoundFraction(num, den),
                 reasons     |-> a[2] \o d[2] \o m[3],
                 amountDiff  |-> amountDiff] >>
        ELSE <<>>

\* the body of transactions.forEach with every sum above 9 included
ScoreTransactionAboveNine(receipt, transaction) ==
    LET amountDiff == Abs(Abs(transaction.amount) - NumberOf(receipt.extracted_amount))
        a == AmountScore(amountDiff)
        d == DateScore(receipt, transaction)
        m == MerchantScore(receipt, transaction)
        num == (a[1] + d[1]) * m[2] + m[1]
        den == m[2]
    IN  IF num > 9 * den
        THEN << [transaction |-> transaction,
                 confidence  |-> RoundFraction(num, den),
                 reasons     |-> a[2] \o d[2] \o m[3],
                 amountDiff  |-> amountDiff] >>
        ELSE <<>>

\* the body of transactions.forEach with the threshold put to the rounded sum
ScoreTransactionRounded(receipt, transaction) ==
    LET amountDiff == Abs(Abs(transaction.amount) - NumberOf(receipt.extracted_amount))
        a == AmountScore(amountDiff)
        d == DateScore(receipt, transaction)
        m == MerchantScore(receipt, transaction)
        num == (a[1] + d[1]) * m[2] + m[1]
        den == m[2]
    IN  IF RoundFraction(num, den) >= 10
        THEN << [transaction |-> transaction,
                 confidence  |-> RoundFraction(num, den),
                 reasons     |-> a[2] \o d[2] \o m[3],
                 amountDiff  |-> amountDiff] >>
        ELSE <<>>

\* the body of transactions.forEach: the candidate of one transaction, or none
ScoreTransaction(receipt, transaction) ==
    LET amountDiff == Abs(Abs(transaction.amount) - NumberOf(receipt.extracted_amount))
        a == AmountScore(amountDiff)
        d == DateScore(receipt, transaction)
        m == MerchantScore(receipt, transaction)
        num == (a[1] + d[1]) * m[2] + m[1]
        den == m[2]
    IN  IF num >= 10 * den
        THEN << [transaction |-> transaction,
                 confidence  |-> RoundFraction(num, den),
                 reasons     |-> a[2] \o d[2] \o m[3],
                 amountDiff  |-> amountDiff] >>
        ELSE <<>>

\* an insertion that puts a candidate before those of its own confidence
RECURSIVE InsertBeforeEqual(_, _)
InsertBeforeEqual(sorted, c) ==
    IF sorted = <<>> THEN <<c>>
    ELSE IF Head(sorted).confidence > c.confidence
         THEN <<Head(sorted)>> \o InsertBeforeEqual(Tail(sorted), c)
         ELSE <<c>> \o sorted

\* Array.prototype.sort((a, b) => b.confidence - a.confidence), stable
RECURSIVE InsertByConfidence(_, _)
InsertByConfidence(sorted, c) ==
    IF sorted = <<>> THEN <<c>>
    ELSE IF Head(sorted).confidence >= c.confidence
         THEN <<Head(sorted)>> \o InsertByConfidence(Tail(sorted), c)
         ELSE <<c>> \o sorted

RECURSIVE SortByConfidence(_, _)
SortByConfidence(list, acc) ==
    IF list = <<>> THEN acc
    ELSE SortByConfidence(Tail(list), InsertByConfidence(acc, Head(list)))

RECURSIVE ScoreAll(_, _)
ScoreAll(receipt, list) ==
    IF list = <<>> THEN <<>>
    ELSE ScoreTransaction(receipt, Head(list)) \o ScoreAll(receipt, Tail(list))

\* an early return that overlooks the receipt's amount
NoTransactionsToScore(receipt, transactions) ==
    \/ transactions = Null
    \/ Len(Val(transactions)) = 0

\* if (!receipt.extracted_amount || !transactions || transactions.length === 0)
NothingToScore(receipt, transactions) ==
    \/ ~TruthyNum(receipt.extracted_amount)
    \/ transactions = Null
    \/ Len(Val(transactions)) = 0

\* transactions: Null (absent) or Some(sequence of transaction rows)
findPotentialMatches(receipt, transactions) ==
    IF NothingToScore(receipt, transactions) THEN <<>>
    ELSE SortByConfidence(ScoreAll(receipt, Val(transactions)), <<>>)

(***************************************************************************)
(* The copy of findPotentialMatches in receipts.js (part_001), which the   *)
(* single-receipt auto-match calls.  The confidence of the transaction at  *)
(* hand is kept as the fraction num / den, with its reasons.               *)
(***************************************************************************)
\* confidence += points; reasons.push(reason)
Credited(sofar, points, reason) ==
    [num |-> sofar.num + points * sofar.den, den |-> sofar.den,
     reasons |-> Append(sofar.reasons, reason)]

\* // Amount matching (most important factor)
AfterAmount(sofar, amountDiff) ==
    CASE amountDiff = 0 -> Credited(sofar, 60, <<"Exact amount match">>)
      [] amountDiff > 0 /\ amountDiff <= 100 -> Credited(sofar, 40, <<"Very close amount match">>)
      [] amountDiff > 100 /\ amountDiff <= 500 -> Credited(sofar, 20, <<"Close amount match">>)
      [] amountDiff > 500 /\ amountDiff <= 1000 -> Credited(sofar, 10, <<"Approximate amount match">>)
      [] OTHER -> sofar

\* // Date matching, for the two dates parsed by moment (Null: not valid)
AfterDates(sofar, receiptDate, transactionDate) ==
    IF receiptDate = Null \/ transactionDate = Null THEN sofar
    ELSE CASE Abs(Val(receiptDate) - Val(transactionDate)) = 0 -> Credited(sofar, 25, <<"Same date">>)
           [] Abs(Val(receiptDate) - Val(transactionDate)) = 1 -> Credited(sofar, 15, <<"Within 1 day">>)
           [] Abs(Val(receiptDate) - Val(transactionDate)) \in 2..3 -> Credited(sofar, 5, <<"Within 3 days">>)
           [] OTHER -> sofar
AfterDate(sofar, receipt, transaction) ==
    IF receipt.extracted_date \in {Null, Some("")} \/ transaction.transaction_date \in {Null, Some("")}
    THEN sofar
    ELSE AfterDates(sofar, ParseReceiptDate(Val(receipt.extracted_date)),
                    ParseTransactionDate(Val(transaction.transaction_date)))

\* merchantWords.forEach: counts is <<wordMatches, significantWordMatches, the words
\* that are neither short nor common>>
RECURSIVE WordCounts(_, _, _)
WordCounts(merchantWords, descriptionLower, counts) ==
    IF merchantWords = <<>> THEN counts
    ELSE WordCounts(
             Tail(merchantWords), descriptionLower,
             IF Len(Head(merchantWords)) > 2
                /\ Head(merchantWords) \notin {"llc", "inc", "corp", "ltd", "company", "co"}
             THEN IF includes(descriptionLower, Head(merchantWords))
                  THEN <<counts[1] + 1,
                         IF Len(Head(merchantWords)) >= 5 THEN counts[2] + 1 ELSE counts[2],
                         counts[3] + 1>>
                  ELSE <<counts[1], counts[2], counts[3] + 1>>
             ELSE counts)

\* if (wordMatches > 0): confidence += Math.min(baseMatchPercent + bonusPoints, 20),
\* the fraction being over the number of counted words
AfterWords(sofar, counts) ==
    IF counts[1] > 0
    THEN [num |-> sofar.num * counts[3]
                    + sofar.den * Min(15 * counts[1] + 5 * counts[2] * counts[3], 20 * counts[3]),
          den |-> sofar.den * counts[3],
          reasons |-> Append(sofar.reasons, <<"Merchant keywords match", counts[1], counts[2]>>)]
    ELSE sofar
\* // Merchant/description matching
AfterMerchant(sofar, receipt, transaction) ==
    IF receipt.extracted_merchant \in {Null, Some("")} \/ transaction.description \in {Null, Some("")}
    THEN sofar
    ELSE AfterWords(sofar,
                    WordCounts(SplitWs(toLowerCase(Val(receipt.extracted_merchant)), "", <<>>, FALSE),
                               toLowerCase(Val(transaction.description)), <<0, 0, 0>>))

\* a push that leaves out the candidates of confidence 10
PushedAboveTen(found, transaction, amountDiff, scored) ==
    IF scored.num > 10 * scored.den
    THEN Append(found, [transaction |-> transaction,
                        confidence  |-> RoundFraction(scored.num, scored.den),
                        reasons     |-> scored.reasons,
                        amountDiff  |-> amountDiff])
    ELSE found

\* if (confidence >= 10) matches.push({transaction, confidence: Math.round(confidence),
\* reasons, amountDiff})
Pushed(found, transaction, amountDiff, scored) ==
    IF scored.num >= 10 * scored.den
    THEN Append(found, [transaction |-> transaction,
                        confidence  |-> RoundFraction(scored.num, scored.den),
                        reasons     |-> scored.reasons,
                        amountDiff  |-> amountDiff])
    ELSE found

\* transactions.forEach
RECURSIVE ForEachTransaction(_, _, _)
ForEachTransaction(receipt, list, found) ==
    IF list = <<>> THEN found
    ELSE ForEachTransaction(
             receipt, Tail(list),
             Pushed(found, Head(list),
                    Abs(Abs(Head(list).amount) - Val(receipt.extracted_amount)),
                    AfterMerchant(
                        AfterDate(
                            AfterAmount([num |-> 0, den |-> 1, reasons |-> <<>>],
                                        Abs(Abs(Head(list).amount) - Val(receipt.extracted_amount))),
                            receipt, Head(list)),
                        receipt, Head(list))))

\* matches.sort((a, b) => b.confidence - a.confidence): the candidates in the order of
\* the list, each behind those before it that have its confidence or more
RECURSIVE SortedByConfidence(_)
SortedByConfidence(found) ==
    IF found = <<>> THEN <<>>
    ELSE SelectSeq(SortedByConfidence(SubSeq(found, 1, Len(found) - 1)),
                   LAMBDA c : c.confidence >= found[Len(found)].confidence)
            \o <<found[Len(found)]>>
            \o SelectSeq(SortedByConfidence(SubSeq(found, 1, Len(found) - 1)),
                         LAMBDA c : c.confidence < found[Len(found)].confidence)

\* transactions: Null (absent) or Some(sequence of transaction rows)
findPotentialMatchesOfReceipts(receipt, transactions) ==
    IF receipt.extracted_amount \in {Null, Some(0)} \/ transactions \in {Null, Some(<<>>)}
    THEN <<>>
    ELSE SortedByConfidence(ForEachTransaction(receipt, Val(transactions), <<>>))

(***************************************************************************)
(* Regular expressions (RegExp.prototype.test, String.prototype.match).    *)
(* A pattern is a tree of nodes; Run gives, for a start position, the      *)
(* ways the node can match there in the order a backtracking matcher tries *)
(* them (greedy quantifiers, alternatives left to right): a way is         *)
(* <<position after the match, capture>>, the capture being <<>> or the    *)
(* <<first, last + 1>> positions of group 1.  Texts are ASCII.             *)
(***************************************************************************)
Lit(str) == [t |-> "lit", str |-> str]
OneOf(chars) == [t |-> "in", chars |-> chars]
NoneOf(chars) == [t |-> "notin", chars |-> chars]
Cat(list) == [t |-> "cat", of |-> list]
Alt(list) == [t |-> "alt", of |-> list]
Rep(n, min, max) == [t |-> "rep", of |-> n, min |-> min, max |-> max]
Star(n) == Rep(n, 0, Null)
Plus(n) == Rep(n, 1, Null)
Opt(n) == Rep(n, 0, Some(1))
Group(n) == [t |-> "group", of |-> n]
Bol == [t |-> "bol"]
Eol == [t |-> "eol"]

\* \w
WordChars == LowerLetters \cup UpperLetters \cup DigitChars \cup {"_"}

InClass(c, chars, ignoreCase) ==
    \/ c \in chars
    \/ ignoreCase /\ \E d \in chars : ToLowerChar(d) = ToLowerChar(c)

\* the characters of str stand in s from position i on
LitAt(str, ignoreCase, s, i) ==
    /\ i + Len(str) - 1 <= Len(s)
    /\ \A k \in 1..Len(str) :
          \/ CharAt(s, i + k - 1) = CharAt(str, k)
          \/ ignoreCase /\ ToLowerChar(CharAt(s, i + k - 1)) = ToLowerChar(CharAt(str, k))

\* the least element of a non-empty set of numbers
Least(set) == CHOOSE i \in set : \A j \in set : i <= j

\* the character c is one the class node matches
Fits(node, ignoreCase, c) ==
    IF node.t = "in" THEN InClass(c, node.chars, ignoreCase)
    ELSE ~InClass(c, node.chars, ignoreCase)

\* a repeated character class: it takes the longest run of fitting characters it
\* may, then gives them back one by one
RunLimit(n, s, i) ==
    IF n.max = Null THEN Len(s) + 1 - i ELSE Min(Val(n.max), Len(s) + 1 - i)
Misfits(n, ignoreCase, s, i, limit) ==
    {j \in 1..limit : ~Fits(n.of, ignoreCase, CharAt(s, i + j - 1))}
LongestRun(limit, misfits) == IF misfits = {} THEN limit ELSE Least(misfits) - 1
GivenBack(n, i, cap, most) ==
    IF most < n.min THEN <<>>
    ELSE [j \in 1..(most - n.min + 1) |-> <<i + most - j + 1, cap>>]
RunChars(n, ignoreCase, s, i, cap) ==
    GivenBack(n, i, cap,
              LongestRun(RunLimit(n, s, i), Misfits(n, ignoreCase, s, i, RunLimit(n, s, i))))

RECURSIVE Run(_, _, _, _, _)
RECURSIVE RunCat(_, _, _, _, _)
RECURSIVE RunRest(_, _, _, _, _, _)
RECURSIVE RunAlt(_, _, _, _, _)
RECURSIVE RunRep(_, _, _, _, _, _)
RECURSIVE RunAgain(_, _, _, _, _, _, _, _)

Run(n, ignoreCase, s, i, cap) ==
    CASE n.t = "lit" ->
            IF LitAt(n.str, ignoreCase, s, i)
            THEN << <<i + Len(n.str), cap>> >> ELSE <<>>
      [] n.t = "in" ->
            IF i <= Len(s) /\ InClass(CharAt(s, i), n.chars, ignoreCase)
            THEN << <<i + 1, cap>> >> ELSE <<>>
      [] n.t = "notin" ->
            IF i <= Len(s) /\ ~InClass(CharAt(s, i), n.chars, ignoreCase)
            THEN << <<i + 1, cap>> >> ELSE <<>>
      [] n.t = "bol" -> IF i = 1 THEN << <<i, cap>> >> ELSE <<>>
      [] n.t = "eol" -> IF i = Len(s) + 1 THEN << <<i, cap>> >> ELSE <<>>
      [] n.t = "cat" -> RunCat(n.of, ignoreCase, s, i, cap)
      [] n.t = "alt" -> RunAlt(n.of, ignoreCase, s, i, cap)
      [] n.t = "rep" -> IF n.of.t \in {"in", "notin"}
                        THEN RunChars(n, ignoreCase, s, i, cap)
                        ELSE RunRep(n, 0, ignoreCase, s, i, cap)
      [] n.t = "group" ->
            LET ways == Run(n.of, ignoreCase, s, i, cap)
            IN  [j \in 1..Len(ways) |-> <<ways[j][1], <<i, ways[j][1]>> >>]

\* the nodes of list one after the other
RunCat(list, ignoreCase, s, i, cap) ==
    IF list = <<>> THEN << <<i, cap>> >>
    ELSE LET ways == Run(Head(list), ignoreCase, s, i, cap)
         IN  RunRest(ways, 1, Len(ways), Tail(list), ignoreCase, s)

\* the rest of a list of nodes, from each of ways[lo..hi] in turn
RunRest(ways, lo, hi, rest, ignoreCase, s) ==
    IF lo > hi THEN <<>>
    ELSE IF lo = hi THEN RunCat(rest, ignoreCase, s, ways[lo][1], ways[lo][2])
    ELSE RunRest(ways, lo, (lo + hi) \div 2, rest, ignoreCase, s)
            \o RunRest(ways, (lo + hi) \div 2 + 1, hi, rest, ignoreCase, s)

\* the alternatives of list from left to right
RunAlt(list, ignoreCase, s, i, cap) ==
    IF list = <<>> THEN <<>>
    ELSE Run(Head(list), ignoreCase, s, i, cap) \o RunAlt(Tail(list), ignoreCase, s, i, cap)

\* count repetitions done: one more if allowed (greedy), else stop here
RunRep(n, count, ignoreCase, s, i, cap) ==
    (IF n.max = Null \/ count < Val(n.max)
     THEN LET ways == Run(n.of, ignoreCase, s, i, cap)
          IN  RunAgain(ways, 1, Len(ways), n, count + 1, ignoreCase, s, i)
     ELSE <<>>)
    \o (IF count >= n.min THEN << <<i, cap>> >> ELSE <<>>)

\* the further repetitions from each of ways[lo..hi] in turn; a repetition that
\* matched the empty string is not repeated
RunAgain(ways, lo, hi, n, count, ignoreCase, s, from) ==
    IF lo > hi THEN <<>>
    ELSE IF lo = hi
         THEN IF ways[lo][1] > from
              THEN RunRep(n, count, ignoreCase, s, ways[lo][1], ways[lo][2])
              ELSE <<>>
    ELSE RunAgain(ways, lo, (lo + hi) \div 2, n, count, ignoreCase, s, from)
            \o RunAgain(ways, (lo + hi) \div 2 + 1, hi, n, count, ignoreCase, s, from)

\* a regular expression literal /node/flags
RegExp(node, flags) ==
    [node |-> node, ignoreCase |-> includes(flags, "i"), global |-> includes(flags, "g")]

\* the leftmost match at or after position from: Null, or its index, the position
\* after it, the matched text and the text of group 1 (Null when not set)
MatchAt(s, i, way) ==
    [index |-> i,
     end   |-> way[1],
     text  |-> SubSeq(s, i, way[1] - 1),
     group |-> IF way[2] = <<>> THEN Null ELSE Some(SubSeq(s, way[2][1], way[2][2] - 1))]

FirstWay(re, s, i) == Run(re.node, re.ignoreCase, s, i, <<>>)[1]

FirstMatch(re, s, starts) ==
    IF starts = {} THEN Null
    ELSE Some(MatchAt(s, Least(starts), FirstWay(re, s, Least(starts))))

ExecFrom(re, s, from) ==
    FirstMatch(re, s,
               {i \in from..(Len(s) + 1) : Run(re.node, re.ignoreCase, s, i, <<>>) # <<>>})

\* re.test(s)
test(re, s) ==
    \E i \in 1..(Len(s) + 1) : Run(re.node, re.ignoreCase, s, i, <<>>) # <<>>

\* s.match(re) without the g flag: Null or the first match
matchFirst(s, re) == ExecFrom(re, s, 1)

\* s.match(re) with the g flag: the texts of the successive matches; the empty
\* sequence stands for null
RECURSIVE MatchAllFrom(_, _, _)
RECURSIVE MatchAllAfter(_, _, _)
MatchAllFrom(re, s, i) == MatchAllAfter(re, s, ExecFrom(re, s, i))
\* m: the match found from the last position on
MatchAllAfter(re, s, m) ==
    IF m = Null THEN <<>>
    ELSE <<Val(m).text>>
            \o MatchAllFrom(re, s, IF Val(m).end = Val(m).index THEN Val(m).end + 1
                                   ELSE Val(m).end)

matchAll(s, re) == MatchAllFrom(re, s, 1)

(***************************************************************************)
(* Text helpers of the extraction pipeline.                                *)
(***************************************************************************)
\* the position of the first character of s from position from on that is not
\* in chars, Len(s) + 1 when there is none
FirstOutside(s, chars, from) ==
    LET outside == {i \in from..Len(s) : CharAt(s, i) \notin chars}
    IN  IF outside = {} THEN Len(s) + 1 ELSE Least(outside)

\* String.prototype.trim
trimStart(s) == SubSeq(s, FirstOutside(s, SpaceChars, 1), Len(s))
trimEnd(s) ==
    LET inside == {i \in 1..Len(s) : CharAt(s, i) \notin SpaceChars}
    IN  IF inside = {} THEN "" ELSE SubSeq(s, 1, CHOOSE i \in inside : \A j \in inside : j <= i)
trim(s) == trimEnd(trimStart(s))

\* s.split('\n')
Lines(s) ==
    LET breaks == {i \in 1..Len(s) : CharAt(s, i) = "\n"}
        n == Cardinality(breaks)
        Break(k) == IF k = 0 THEN 0
                    ELSE IF k = n + 1 THEN Len(s) + 1
                    ELSE CHOOSE p \in breaks : Cardinality({q \in breaks : q < p}) = k - 1
    IN  [k \in 1..(n + 1) |-> SubSeq(s, Break(k - 1) + 1, Break(k) - 1)]

\* s.replace(/[chars]/g, '')
RECURSIVE WithoutIn(_, _, _, _)
WithoutIn(s, chars, lo, hi) ==
    IF lo > hi THEN ""
    ELSE IF lo = hi THEN (IF CharAt(s, lo) \in chars THEN "" ELSE CharAt(s, lo))
    ELSE WithoutIn(s, chars, lo, (lo + hi) \div 2) \o WithoutIn(s, chars, (lo + hi) \div 2 + 1, hi)

Without(s, chars) == WithoutIn(s, chars, 1, Len(s))

\* s.replace(c, by): the first occurrence of the character c only
ReplaceFirst(s, c, by) ==
    LET i == FirstOutside(s, CharsOf(s) \ {c}, 1)
    IN  IF i > Len(s) THEN s ELSE SubSeq(s, 1, i - 1) \o by \o SubSeq(s, i + 1, Len(s))

\* the longest prefix of s made of characters of chars
PrefixOf(s, chars) == SubSeq(s, 1, FirstOutside(s, chars, 1) - 1)

\* match.replace(/^[^0-9,]*/, '')
FromFirstNumberChar(s) ==
    SubSeq(s, FirstOutside(s, CharsOf(s) \ (DigitChars \cup {","}), 1), Len(s))

\* n.toString() of a natural number, and padStart(2, '0')
RECURSIVE NatToString(_)
NatToString(n) ==
    IF n < 10 THEN CharAt(Digits, n + 1)
    ELSE NatToString(n \div 10) \o CharAt(Digits, (n % 10) + 1)

PadStart2(s) == IF Len(s) < 2 THEN "0" \o s ELSE s

(***************************************************************************)
(* Numbers read from text.  A number is the record [n, k] standing for     *)
(* n / 10^k with n not a multiple of 10 unless k = 0: the decimal numbers  *)
(* parseFloat yields here are kept exact.                                  *)
(***************************************************************************)
RECURSIVE Pow10(_)
Pow10(k) == IF k = 0 THEN 1 ELSE 10 * Pow10(k - 1)

RECURSIVE Decimal(_, _)
Decimal(n, k) ==
    IF k > 0 /\ n % 10 = 0 THEN Decimal(n \div 10, k - 1) ELSE [n |-> n, k |-> k]

Whole(n) == Decimal(n, 0)

\* a < b
Less(a, b) == a.n * Pow10(b.k) < b.n * Pow10(a.k)

\* parseFloat(s) for s without sign and exponent: the longest prefix
\* digits[.digits] or .digits is read; Null stands for NaN
FloatOf(int, frac) ==
    IF int = "" /\ frac = "" THEN Null
    ELSE Some(Decimal(ParseNat(int \o frac, 0), Len(frac)))
FractionIn(rest) ==
    IF rest # "" /\ Head(rest) = "." THEN PrefixOf(Tail(rest), DigitChars) ELSE ""
FloatAfter(t, int) == FloatOf(int, FractionIn(SubSeq(t, Len(int) + 1, Len(t))))
FloatIn(t) == FloatAfter(t, PrefixOf(t, DigitChars))
parseFloat(s) == FloatIn(trimStart(s))

\* /,\d{2}$/
CommaTwoDigitsAtEnd ==
    RegExp(Cat(<<Lit(","), Rep(OneOf(DigitChars), 2, Some(2)), Eol>>), "")

\* const parseAmount = (amountStr) => ...
\* cleaned: amountStr.replace(/[\s$]/g, '')
AmountIn(cleaned) ==
    parseFloat(IF test(CommaTwoDigitsAtEnd, cleaned)
               THEN ReplaceFirst(cleaned, ",", ".")
               ELSE Without(cleaned, {","}))
parseAmount(amountStr) == AmountIn(Without(amountStr, SpaceChars \cup {"$"}))

(***************************************************************************)
(* processReceiptOCR: the amount.                                          *)
(***************************************************************************)
Digit == OneOf(DigitChars)
Ws == OneOf(SpaceChars)
\* [\s:$...] (of the currency signs only $ is an ASCII character)
LabelEnd == OneOf(SpaceChars \cup {":", "$"})
\* ([0-9,]+\.?\d{0,2})
AmountGroup ==
    Group(Cat(<<Plus(OneOf(DigitChars \cup {","})), Opt(Lit(".")), Rep(Digit, 0, Some(2))>>))
\* ([0-9,]+\.?\d{2})
AmountGroup2 ==
    Group(Cat(<<Plus(OneOf(DigitChars \cup {","})), Opt(Lit(".")), Rep(Digit, 2, Some(2))>>))
\* word1\s*word2
Words(a, b) == Cat(<<Lit(a), Star(Ws), Lit(b)>>)

paymentRegex ==
    RegExp(Cat(<<Alt(<<Lit("payment"), Words("payment", "amount"), Words("monthly", "charge"),
                       Words("service", "charge"), Words("bill", "amount"), Lit("charge"),
                       Lit("amount"), Words("total", "charges")>>),
                 Opt(Alt(<<Cat(<<Star(Ws), Lit("USD"), Star(Ws)>>),
                           Cat(<<Star(Ws), Star(LabelEnd)>>)>>)),
                 AmountGroup>>), "gi")

usdRegex ==
    RegExp(Cat(<<Alt(<<Lit("payment"), Words("total", "charges"), Lit("subtotal"),
                       Words("total", "tax")>>),
                 Lit("USD"), Star(Ws), AmountGroup>>), "gi")

grandTotalRegex ==
    RegExp(Cat(<<Alt(<<Words("grand", "total"), Words("final", "total"),
                       Words("total", "amount"), Words("amount", "due")>>),
                 Star(LabelEnd), AmountGroup>>), "gi")

totalRegex ==
    RegExp(Cat(<<Alt(<<Bol, Ws, Lit(":")>>), Lit("total"), Star(LabelEnd), AmountGroup>>), "gi")

subtotalRegex ==
    RegExp(Cat(<<Alt(<<Words("sub", "total"), Lit("subtotal")>>), Star(LabelEnd), AmountGroup>>),
           "gi")

taxRegex ==
    RegExp(Cat(<<Alt(<<Lit("tax"), Lit("vat"), Lit("gst")>>), Star(LabelEnd), AmountGroup>>), "gi")

currencyRegex == RegExp(Cat(<<Lit("$"), Star(Ws), AmountGroup>>), "g")

balanceRegex ==
    RegExp(Cat(<<Alt(<<Words("balance", "due"), Words("amount", "owed"),
                       Words("amount", "payable"), Words("invoice", "amount")>>),
                 Star(LabelEnd), AmountGroup>>), "gi")

\* /^total\s*$/, /^\$([0-9,]+\.?\d{0,2})$/, /^[\$]?([0-9,]+\.?\d{2})$/
TotalAlone == RegExp(Cat(<<Bol, Lit("total"), Star(Ws), Eol>>), "")
DollarAmountAlone == RegExp(Cat(<<Bol, Lit("$"), AmountGroup, Eol>>), "")
AmountAlone == RegExp(Cat(<<Bol, Opt(Lit("$")), AmountGroup2, Eol>>), "")
\* /bill|invoice|charge|amount|payment/i, /([0-9,]+\.?\d{2})/
BillingWord ==
    RegExp(Alt(<<Lit("bill"), Lit("invoice"), Lit("charge"), Lit("amount"), Lit("payment")>>), "i")
AmountAnywhere == RegExp(AmountGroup2, "")

MaxAmount == 50000
MaxTax == 10000

\* a bound that lets the upper limit itself through
AcceptableUpTo(amount) ==
    amount # Null /\ Less(Whole(0), Val(amount)) /\ ~Less(Whole(MaxAmount), Val(amount))

\* !isNaN(amount) && amount > 0 && amount < 50000
Acceptable(amount) ==
    amount # Null /\ Less(Whole(0), Val(amount)) /\ Less(Val(amount), Whole(MaxAmount))
\* !isNaN(amount) && amount >= 0 && amount < 10000
AcceptableTax(amount) ==
    amount # Null /\ ~Less(Val(amount), Whole(0)) /\ Less(Val(amount), Whole(MaxTax))
\* !isNaN(amount) && amount > 1 && amount < 50000
AcceptableFlexible(amount) ==
    amount # Null /\ Less(Whole(1), Val(amount)) /\ Less(Val(amount), Whole(MaxAmount))

\* for (const match of matches) { ...; if (acceptable) { field = amount; break; } }:
\* the amount of the first match that is acceptable, or Null
RECURSIVE FirstAmount(_)
RECURSIVE FirstAmountAfter(_, _)
FirstAmount(found) ==
    IF found = <<>> THEN Null
    ELSE FirstAmountAfter(found, parseAmount(FromFirstNumberChar(Head(found))))
\* amount: the amount of the first match of found
FirstAmountAfter(found, amount) ==
    IF Acceptable(amount) THEN amount ELSE FirstAmount(Tail(found))

RECURSIVE FirstTax(_)
RECURSIVE FirstTaxAfter(_, _)
FirstTax(found) ==
    IF found = <<>> THEN Null
    ELSE FirstTaxAfter(found, parseAmount(FromFirstNumberChar(Head(found))))
FirstTaxAfter(found, amount) ==
    IF AcceptableTax(amount) THEN amount ELSE FirstTax(Tail(found))

\* a field of amountBreakdown after such a loop
Found(amount, field) == IF amount # Null THEN amount ELSE field

NoBreakdown == [subtotal |-> Null, tax |-> Null, total |-> Null, grandTotal |-> Null]

\* !amountBreakdown.x : the field is null (a field that is set is not 0, tax apart)
Unset(field) == field = Null

\* Strategy 1
PaymentAmount(text, b) ==
    [b EXCEPT !.total = Found(FirstAmount(matchAll(text, paymentRegex)), @)]

\* Strategy 1b
UsdAmount(text, b) ==
    IF Unset(b.total)
    THEN [b EXCEPT !.total = Found(FirstAmount(matchAll(text, usdRegex)), @)]
    ELSE b

\* Strategy 2: from line i on, the first line that is "total" alone and is
\* followed by a line that is a $ amount alone, acceptable
\* the amount a match of a pattern with one group gives: that of its group, Null
\* without a match
GroupAmount(m) == IF m = Null THEN Null ELSE parseAmount(Val(Val(m).group))

RECURSIVE MultiLineTotalFrom(_, _)
RECURSIVE MultiLineTotalAt(_, _, _, _)
MultiLineTotalFrom(textLines, i) ==
    IF i > Len(textLines) - 1 THEN Null
    ELSE MultiLineTotalAt(textLines, i, toLowerCase(trim(textLines[i])),
                          GroupAmount(matchFirst(trim(textLines[i + 1]), DollarAmountAlone)))
\* amount: what the line after line i gives as a $ amount alone
MultiLineTotalAt(textLines, i, currentLine, amount) ==
    IF test(TotalAlone, currentLine) /\ Acceptable(amount)
    THEN amount
    ELSE MultiLineTotalFrom(textLines, i + 1)

\* a multi-line total that leaves a total already set alone
MultiLineTotalIfUnset(text, b) ==
    IF Unset(b.total)
    THEN [b EXCEPT !.total = Found(MultiLineTotalFrom(Lines(text), 1), @)]
    ELSE b

MultiLineTotal(text, b) ==
    [b EXCEPT !.total = Found(MultiLineTotalFrom(Lines(text), 1), @)]

\* Strategy 3
GrandTotal(text, b) ==
    [b EXCEPT !.grandTotal = Found(FirstAmount(matchAll(text, grandTotalRegex)), @)]

\* Strategy 4
LabelledTotal(text, b) ==
    IF Unset(b.grandTotal) /\ Unset(b.total)
    THEN [b EXCEPT !.total = Found(FirstAmount(matchAll(text, totalRegex)), @)]
    ELSE b

\* Strategy 5
Subtotal(text, b) ==
    [b EXCEPT !.subtotal = Found(FirstAmount(matchAll(text, subtotalRegex)), @)]

\* Strategy 6
Tax(text, b) ==
    [b EXCEPT !.tax = Found(FirstTax(matchAll(text, taxRegex)), @)]

\* Strategy 7: the largest acceptable $ amount
Larger(best, amount) ==
    IF Acceptable(amount) /\ (best = Null \/ Less(Val(best), Val(amount)))
    THEN amount ELSE best

RECURSIVE LargestAmount(_, _)
LargestAmount(found, best) ==
    IF found = <<>> THEN best
    ELSE LargestAmount(Tail(found), Larger(best, parseAmount(trimStart(Tail(Head(found))))))

CurrencyAmount(text, b) ==
    IF Unset(b.total) /\ Unset(b.grandTotal)
    THEN [b EXCEPT !.total = Found(LargestAmount(matchAll(text, currencyRegex), Null), @)]
    ELSE b

\* Strategy 8
RECURSIVE StandaloneAmountIn(_)
RECURSIVE StandaloneAmountAfter(_, _)
StandaloneAmountIn(lines) ==
    IF lines = <<>> THEN Null
    ELSE StandaloneAmountAfter(lines, GroupAmount(matchFirst(trim(Head(lines)), AmountAlone)))
\* amount: what the first line gives as an amount alone
StandaloneAmountAfter(lines, amount) ==
    IF Acceptable(amount) THEN amount ELSE StandaloneAmountIn(Tail(lines))

StandaloneAmount(text, b) ==
    IF Unset(b.total) /\ Unset(b.grandTotal)
    THEN [b EXCEPT !.total = Found(StandaloneAmountIn(Lines(text)), @)]
    ELSE b

\* Strategy 9
BalanceDue(text, b) ==
    IF Unset(b.total) /\ Unset(b.grandTotal)
    THEN [b EXCEPT !.total = Found(FirstAmount(matchAll(text, balanceRegex)), @)]
    ELSE b

\* Strategy 10
RECURSIVE BillingAmountIn(_, _)
RECURSIVE BillingAmountAt(_, _, _)
RECURSIVE BillingAmountAfter(_, _, _)
BillingAmountIn(lines, foundInBillingSection) ==
    IF lines = <<>> THEN Null
    ELSE BillingAmountAt(lines, foundInBillingSection, trim(Head(lines)))
\* line: the first line, trimmed
BillingAmountAt(lines, foundInBillingSection, line) ==
    BillingAmountAfter(lines, foundInBillingSection \/ test(BillingWord, line),
                       GroupAmount(matchFirst(line, AmountAnywhere)))
\* amount: the amount anywhere in the first line
BillingAmountAfter(lines, inSection, amount) ==
    IF inSection /\ AcceptableFlexible(amount)
    THEN amount
    ELSE BillingAmountIn(Tail(lines), inSection)

BillingAmount(text, b) ==
    IF Unset(b.total) /\ Unset(b.grandTotal)
    THEN [b EXCEPT !.total = Found(BillingAmountIn(Lines(text), FALSE), @)]
    ELSE b

\* the breakdown after the ten strategies, in the order of the code
AmountBreakdown(text) ==
    BillingAmount(text,
     BalanceDue(text,
      StandaloneAmount(text,
       CurrencyAmount(text,
        Tax(text,
         Subtotal(text,
          LabelledTotal(text,
           GrandTotal(text,
            MultiLineTotal(text,
             UsdAmount(text,
              PaymentAmount(text, NoBreakdown)))))))))))

\* a choice that falls back on the tax
MainAmountOrTax(b) ==
    IF b.grandTotal # Null THEN b.grandTotal
    ELSE IF b.total # Null THEN b.total
    ELSE IF b.subtotal # Null THEN b.subtotal
    ELSE b.tax

\* amountBreakdown.grandTotal || amountBreakdown.total || amountBreakdown.subtotal
MainAmount(b) ==
    IF b.grandTotal # Null THEN b.grandTotal
    ELSE IF b.total # Null THEN b.total
    ELSE b.subtotal

(***************************************************************************)
(* processReceiptOCR: the date.                                            *)
(***************************************************************************)
\* \d{1,2}[\/\-]\d{1,2}[\/\-]\d{2,4}
NumericDate ==
    Cat(<<Rep(Digit, 1, Some(2)), OneOf({"/", "-"}), Rep(Digit, 1, Some(2)), OneOf({"/", "-"}),
          Rep(Digit, 2, Some(4))>>)
\* [a-z]+\s+\d{1,2},?\s+\d{4}
WrittenDate ==
    Cat(<<Plus(OneOf(LowerLetters)), Plus(Ws), Rep(Digit, 1, Some(2)), Opt(Lit(",")), Plus(Ws),
          Rep(Digit, 4, Some(4))>>)

MonthNames ==
    <<"january", "february", "march", "april", "may", "june", "july", "august",
      "september", "october", "november", "december">>

RECURSIVE Lits(_)
Lits(names) == IF names = <<>> THEN <<>> ELSE <<Lit(Head(names))>> \o Lits(Tail(names))

dateStrategies ==
    << RegExp(Cat(<<Alt(<<Words("invoice", "date"), Words("bill", "date"), Words("date", "paid")>>),
                    Star(OneOf(SpaceChars \cup {":"})), Group(WrittenDate)>>), "gi"),
       RegExp(Cat(<<Lit("date"), Star(Ws), Lit("paid"), Star(Ws), Group(WrittenDate)>>), "gi"),
       RegExp(Cat(<<Lit("date"), Plus(Ws), Lit("paid"), Group(WrittenDate)>>), "gi"),
       RegExp(Cat(<<Alt(<<Words("invoice", "date"), Words("bill", "date"), Lit("date")>>),
                    Star(OneOf(SpaceChars \cup {":"})), Group(NumericDate)>>), "gi"),
       RegExp(Cat(<<Alt(<<Words("due", "date"), Words("payment", "due")>>),
                    Star(OneOf(SpaceChars \cup {":"})),
                    Group(Alt(<<WrittenDate, NumericDate>>))>>), "gi"),
       RegExp(Group(NumericDate), "g"),
       RegExp(Group(Cat(<<Alt(Lits(MonthNames)), Plus(Ws), Rep(Digit, 1, Some(2)), Opt(Lit(",")),
                          Plus(Ws), Rep(Digit, 4, Some(4))>>)), "gi") >>

\* /(\d{1,2}[\/\-]\d{1,2}[\/\-]\d{2,4})/ and /([a-z]+\s+\d{1,2},?\s+\d{4})/i
NumericDateAnywhere == RegExp(Group(NumericDate), "")
WrittenDateAnywhere == RegExp(Group(WrittenDate), "i")

\* the month a word names for the Date parser: the one whose name begins with the
\* word's first three letters, 0 when there is none
MonthNamed(named) == IF named = {} THEN 0 ELSE CHOOSE m \in named : TRUE
MonthWith(prefix) == MonthNamed({m \in 1..12 : SubSeq(MonthNames[m], 1, 3) = prefix})
MonthOf(word) == MonthWith(toLowerCase(SubSeq(word, 1, Min(3, Len(word)))))

\* the year a number stands for: 0..49 are 2000..2049 and 50..99 are 1950..1999
YearOf(n) == IF n <= 49 THEN 2000 + n ELSE IF n <= 99 THEN 1900 + n ELSE n

\* the calendar date that is the day-th day counted from the first of the month
RECURSIVE DayOfMonth(_, _, _)
DayOfMonth(y, m, d) ==
    IF d <= DaysInMonth(y, m) THEN [year |-> y, month |-> m, day |-> d]
    ELSE IF m = 12 THEN DayOfMonth(y + 1, 1, d - DaysInMonth(y, m))
    ELSE DayOfMonth(y, m + 1, d - DaysInMonth(y, m))

\* new Date(written) for written of the form word, day, year (the form of
\* WrittenDate), as Node's parser reads it: a month name or a longer word with a
\* month's first three letters, a day from 1 to 31 (days past the month's end run
\* into the next month).  Null stands for an invalid date.
DateOf(month, day, year) ==
    IF month = 0 \/ day \notin 1..31 THEN Null
    ELSE Some(DayOfMonth(YearOf(year), month, day))
YearIn(afterDay) ==
    trimStart(IF afterDay # "" /\ Head(afterDay) = "," THEN Tail(afterDay) ELSE afterDay)
DateAfterDay(word, afterWord, day) ==
    DateOf(MonthOf(word), ParseNat(day, 0),
           ParseNat(YearIn(SubSeq(afterWord, Len(day) + 1, Len(afterWord))), 0))
DateAfterWord(word, afterWord) == DateAfterDay(word, afterWord, PrefixOf(afterWord, DigitChars))
DateAfter(written, word) ==
    DateAfterWord(word, trimStart(SubSeq(written, Len(word) + 1, Len(written))))
NewDate(written) == DateAfter(written, PrefixOf(written, LowerLetters \cup UpperLetters))

\* `${month}/${day}/${year}` with month and day padded to two digits
FormatDate(dateObj) ==
    PadStart2(NatToString(dateObj.month)) \o "/" \o PadStart2(NatToString(dateObj.day))
        \o "/" \o NatToString(dateObj.year)

\* the date one full match gives: the numeric date in it, else the written date in
\* it when it converts, else Null
Formatted(dateObj) == IF dateObj = Null THEN Null ELSE Some(FormatDate(Val(dateObj)))
WrittenDateOf(writtenDateMatch) ==
    IF writtenDateMatch = Null THEN Null
    ELSE Formatted(NewDate(Val(Val(writtenDateMatch).group)))
NumericDateOf(fullMatch, dateMatch) ==
    IF dateMatch # Null THEN Val(dateMatch).group
    ELSE WrittenDateOf(matchFirst(fullMatch, WrittenDateAnywhere))
DateOfMatch(fullMatch) == NumericDateOf(fullMatch, matchFirst(fullMatch, NumericDateAnywhere))

\* the loop over the matches left after its first match, whatever that match gives
FirstDateOfHead(found, date) == date

\* for (const fullMatch of dateMatches): the first match that gives a date
RECURSIVE FirstDate(_)
RECURSIVE FirstDateAfter(_, _)
FirstDate(found) ==
    IF found = <<>> THEN Null ELSE FirstDateAfter(found, DateOfMatch(Head(found)))
\* date: the date of the first match of found
FirstDateAfter(found, date) == IF date # Null THEN date ELSE FirstDate(Tail(found))

\* for (const dateRegex of dateStrategies): the first strategy that gives a date
RECURSIVE ExtractedDateFrom(_, _)
RECURSIVE ExtractedDateAfter(_, _, _)
ExtractedDateFrom(text, strategies) ==
    IF strategies = <<>> THEN Null
    ELSE ExtractedDateAfter(text, strategies, FirstDate(matchAll(text, Head(strategies))))
\* extractedDate: the date the first strategy gives
ExtractedDateAfter(text, strategies, extractedDate) ==
    IF extractedDate # Null THEN extractedDate
    ELSE ExtractedDateFrom(text, Tail(strategies))

ExtractedDate(text) == ExtractedDateFrom(text, dateStrategies)

(***************************************************************************)
(* processReceiptOCR: the merchant.                                        *)
(***************************************************************************)
RECURSIVE NonBlank(_)
NonBlank(lines) ==
    IF lines = <<>> THEN <<>>
    ELSE (IF Len(trim(Head(lines))) > 0 THEN <<Head(lines)>> ELSE <<>>) \o NonBlank(Tail(lines))

excludePatterns ==
    << RegExp(Cat(<<Bol, Lit("page"), Plus(Ws), Plus(Digit)>>), "i"),
       RegExp(Cat(<<Bol, Plus(Digit), Eol>>), ""),
       RegExp(Cat(<<Bol, Plus(OneOf(DigitChars \cup SpaceChars \cup {"-", "(", ")"})), Eol>>), ""),
       RegExp(Alt(<<Lit("invoice"), Lit("bill"), Lit("receipt"), Lit("statement")>>), "i"),
       RegExp(Alt(<<Lit("total"), Lit("subtotal"), Lit("tax"), Lit("amount"), Lit("due")>>), "i"),
       RegExp(Cat(<<Bol, Group(Alt(<<Lit("to"), Lit("from"), Lit("attn"), Lit("attention")>>)),
                    Lit(":")>>), "i"),
       RegExp(Cat(<<Bol, Group(Alt(<<Lit("phone"), Lit("tel"), Lit("fax"), Lit("email"),
                                     Lit("address")>>))>>), "i"),
       RegExp(Cat(<<Bol, Group(Alt(<<Lit("thank you"), Lit("thanks")>>))>>), "i"),
       RegExp(Cat(<<Bol, Plus(NoneOf(WordChars)), Eol>>), "") >>

\* /^\d+[.,]\d+$/
JustANumber == RegExp(Cat(<<Bol, Plus(Digit), OneOf({".", ","}), Plus(Digit), Eol>>), "")
\* /LLC|Inc|Corp|Company|Co\.|Ltd|LTD|Construction|Services|Group/i
CompanyIndicator ==
    RegExp(Alt(<<Lit("LLC"), Lit("Inc"), Lit("Corp"), Lit("Company"), Lit("Co."), Lit("Ltd"),
                 Lit("LTD"), Lit("Construction"), Lit("Services"), Lit("Group")>>), "i")
\* /^[A-Z][a-z]/
ProperCapitalization == RegExp(Cat(<<Bol, OneOf(UpperLetters), OneOf(LowerLetters)>>), "")

MinMerchantLength == 3
MaxMerchantLength == 60
MerchantLines == 8

\* the condition under which a line may name the merchant
MerchantCandidate(line) ==
    /\ Len(line) >= MinMerchantLength
    /\ Len(line) <= MaxMerchantLength
    /\ ~\E p \in 1..Len(excludePatterns) : test(excludePatterns[p], line)
    /\ ~test(JustANumber, line)

\* Strategy 1: the loop over the first lines from line i on, potentialMerchant being
\* what the lines before have left
RECURSIVE CompanyLine(_, _, _)
RECURSIVE CompanyLineAt(_, _, _, _, _)
CompanyLine(lines, i, potentialMerchant) ==
    IF i > Min(MerchantLines, Len(lines)) THEN potentialMerchant
    ELSE CompanyLineAt(lines, i, potentialMerchant, trim(lines[i]),
                       MerchantCandidate(trim(lines[i])))
\* line: line i trimmed; candidate: it may name the merchant
CompanyLineAt(lines, i, potentialMerchant, line, candidate) ==
    IF candidate /\ test(CompanyIndicator, line) THEN Some(line)
    ELSE IF candidate /\ test(ProperCapitalization, line) /\ potentialMerchant = Null
         THEN CompanyLine(lines, i + 1, Some(line))
    ELSE CompanyLine(lines, i + 1, potentialMerchant)

\* /(?:bill\s*to|from|vendor)[\s:]*\n([^\n]+)/i
billToRegex ==
    RegExp(Cat(<<Alt(<<Words("bill", "to"), Lit("from"), Lit("vendor")>>),
                 Star(OneOf(SpaceChars \cup {":"})), Lit("\n"),
                 Group(Plus(NoneOf({"\n"})))>>), "i")

\* Strategy 2
BillToCandidate(potentialMerchant, candidate) ==
    IF Len(candidate) >= MinMerchantLength /\ Len(candidate) <= MaxMerchantLength
    THEN Some(candidate)
    ELSE potentialMerchant
BillToMatched(potentialMerchant, billToMatch) ==
    IF billToMatch # Null
    THEN BillToCandidate(potentialMerchant, trim(Val(Val(billToMatch).group)))
    ELSE potentialMerchant
BillToLine(text, potentialMerchant) ==
    IF potentialMerchant = Null
    THEN BillToMatched(potentialMerchant, matchFirst(text, billToRegex))
    ELSE potentialMerchant

servicePatterns ==
    << RegExp(Cat(<<Alt(<<Words("service", "provider"), Words("provided", "by"), Lit("from"),
                          Lit("vendor")>>),
                    Star(OneOf(SpaceChars \cup {":"})), Group(Plus(NoneOf({"\n"})))>>), "gi"),
       RegExp(Alt(<<Lit("starlink"), Lit("spacex")>>), "gi"),
       RegExp(Alt(<<Lit("internet"), Lit("satellite"), Lit("connectivity")>>), "gi"),
       RegExp(Alt(<<Lit("birdseye"), Lit("surveillance")>>), "gi") >>

StarlinkWord == RegExp(Alt(<<Lit("starlink"), Lit("spacex")>>), "i")
BirdseyeWord == RegExp(Alt(<<Lit("birdseye"), Lit("surveillance")>>), "i")

\* for (const match of serviceMatches): the provider the first telling match names
RECURSIVE ProviderIn(_, _)
ProviderIn(found, potentialMerchant) ==
    IF found = <<>> THEN potentialMerchant
    ELSE IF test(StarlinkWord, Head(found)) THEN Some("Starlink")
    ELSE IF test(BirdseyeWord, Head(found)) THEN Some("Birdseye Surveillance LLC")
    ELSE ProviderIn(Tail(found), potentialMerchant)

\* for (const pattern of servicePatterns)
RECURSIVE ProviderFrom(_, _, _)
RECURSIVE ProviderAfter(_, _, _)
ProviderFrom(text, patterns, potentialMerchant) ==
    IF patterns = <<>> THEN potentialMerchant
    ELSE ProviderAfter(text, patterns,
                       ProviderIn(matchAll(text, Head(patterns)), potentialMerchant))
\* after: potentialMerchant after the first pattern
ProviderAfter(text, patterns, after) ==
    IF after \in {Some("Starlink"), Some("Birdseye Surveillance LLC")} THEN after
    ELSE ProviderFrom(text, Tail(patterns), after)

\* Strategy 3
ServiceProvider(text, potentialMerchant) ==
    IF potentialMerchant = Null \/ includes(Val(potentialMerchant), "Chasco")
    THEN ProviderFrom(text, servicePatterns, potentialMerchant)
    ELSE potentialMerchant

\* the special handling of Birdseye documents
BirdseyeDocument(text, potentialMerchant) ==
    IF includes(toLowerCase(text), "birdseye") /\ includes(toLowerCase(text), "surveillance")
    THEN Some("Birdseye Surveillance LLC")
    ELSE potentialMerchant

ExtractedMerchant(text) ==
    BirdseyeDocument(text,
     ServiceProvider(text,
      BillToLine(text,
       CompanyLine(NonBlank(Lines(text)), 1, Null))))

(***************************************************************************)
(* processReceiptOCR.                                                      *)
(***************************************************************************)
PdfType == "application/pdf"
MinPdfTextLength == 10
NoPdfText == "No extractable text found in PDF"

\* the text the fields are extracted from
ExtractedText(mimeType, text) ==
    IF mimeType = PdfType /\ (text = "" \/ Len(trim(text)) < MinPdfTextLength)
    THEN NoPdfText
    ELSE text

\* what processReceiptOCR returns for a file of the given type whose text source
\* (pdf-parse, Tesseract) has yielded text
ExtractedFields(extractedText, amountBreakdown) ==
    [text |-> extractedText,
     extractedAmount |-> MainAmount(amountBreakdown),
     extractedDate |-> ExtractedDate(extractedText),
     extractedMerchant |-> ExtractedMerchant(extractedText),
     amountBreakdown |-> amountBreakdown]
FieldsOf(extractedText) == ExtractedFields(extractedText, AmountBreakdown(extractedText))
processReceiptOCR(mimeType, text) == FieldsOf(ExtractedText(mimeType, text))

(***************************************************************************)
(* The database and the requests in flight.                                *)
(***************************************************************************)
VARIABLES
    transactions,   \* the ledger: sequence of transaction rows in rowid order
    receipts,       \* receipt id -> Null (no such row) or Some(receipt row)
    matches,        \* the matches table: a bag of Match rows
    upload,         \* receipt id -> where its POST /upload handler stands: "none",
                    \*   "ocr" (awaiting processReceiptOCR), "returned" or "threw"
    single,         \* receipt id -> where its triggerAutoMatchForReceipt stands
    bulk,           \* the POST /auto-match request in flight
    lastRun,        \* observer of consecutive bulk runs (see Disturbed, BulkFinalize)
    call            \* a call of a pure function: its arguments and its result

vars == <<transactions, receipts, matches, upload, single, bulk, lastRun, call>>
dbVars == <<transactions, receipts, matches, upload, single, bulk, lastRun>>

MaxReceipts == 2
ReceiptIds == 1..MaxReceipts

\* the ledger as imported before the receipts arrive
Ledger ==
    << [id |-> 1, transaction_date |-> Some("2025-07-22"),
        description |-> Some("OPENAI *CHATGPT SUBSCR"), amount |-> -2000],
       [id |-> 2, transaction_date |-> Some("2025-07-23"),
        description |-> Some("STARLINK INTERNET"), amount |-> -2000] >>

TransactionIds == {Ledger[i].id : i \in 1..Len(Ledger)}

\* the texts of the documents uploaded here (images, read by Tesseract) and what
\* processReceiptOCR returns for them
ReceiptTextA == "OpenAI LLC\nDate paid July 22, 2025\nTotal $20.00"
ReceiptTextB == "$20.00"
ReceiptTextC == ""
OcrResultA == processReceiptOCR("image/png", ReceiptTextA)
OcrResultB == processReceiptOCR("image/png", ReceiptTextB)
OcrResultC == processReceiptOCR("image/png", ReceiptTextC)
OcrResults == {OcrResultA, OcrResultB, OcrResultC}

\* the bodies of PUT /receipts/:id sent here
ReceiptEdits ==
    { [extracted_amount |-> Some(2000), extracted_date |-> Some("07/23/2025"),
       extracted_merchant |-> Some("Starlink")] }

\* req.body.threshold of POST /auto-match: absent, or a number
ThresholdInputs == {Null, Some(0), Some(60)}
\* req.body.match_confidence of POST /matches
ConfidenceInputs == {Some(85)}

\* lastRun.clean: the bulk run in flight has seen no failed upsert and no step of
\* another request since it started; lastRun.prev: the rows the last clean run ended
\* with, its threshold and its upserts, and whether it followed a clean run itself,
\* kept while no other request has acted since and the next run's threshold is the same
NoRun == [clean |-> FALSE, prev |-> Null]

IdleSingle == [pc |-> "idle", receipt |-> Null, upsert |-> Null]
IdleBulk == [pc |-> "idle", threshold |-> 0, receipts |-> <<>>, issued |-> <<>>,
             outcome |-> <<>>, autoMatched |-> 0, response |-> Null]

NewReceipt(r) ==
    [id |-> r, processing_status |-> "processing", ocr_text |-> Null,
     extracted_amount |-> Null, extracted_date |-> Null, extracted_merchant |-> Null]

\* an extracted amount, of two decimals at most, as the number of cents it is
InCents(amount) ==
    IF amount = Null THEN Null ELSE Some(Val(amount).n * Pow10(2 - Val(amount).k))

\* the receipt row as the UPDATE with the OCR results leaves it
WithOcrResults(row, result) ==
    [row EXCEPT !.ocr_text = Some(result.text),
                !.extracted_amount = InCents(result.extractedAmount),
                !.extracted_date = result.extractedDate,
                !.extracted_merchant = result.extractedMerchant,
                !.processing_status = "completed"]

\* An empty database into which the ledger has been imported.
InitEmpty ==
    /\ transactions = Ledger
    /\ receipts = [r \in ReceiptIds |-> Null]
    /\ matches = EmptyBag
    /\ upload = [r \in ReceiptIds |-> "none"]
    /\ single = [r \in ReceiptIds |-> IdleSingle]
    /\ bulk = IdleBulk
    /\ lastRun = NoRun

\* The first n receipts were uploaded and extracted (receipt r holding document
\* Uploaded[r]) before the ledger was imported: their auto-match found no transaction.
Uploaded == << OcrResultA, OcrResultB >>

InitUploaded(n) ==
    /\ transactions = Ledger
    /\ receipts = [r \in ReceiptIds |->
                     IF r <= n THEN Some(WithOcrResults(NewReceipt(r), Uploaded[r])) ELSE Null]
    /\ matches = EmptyBag
    /\ upload = [r \in ReceiptIds |-> IF r <= n THEN "returned" ELSE "none"]
    /\ single = [r \in ReceiptIds |-> IdleSingle]
    /\ bulk = IdleBulk
    /\ lastRun = NoRun

NoCall == [op |-> "none"]

(***************************************************************************)
(* The matches table.                                                      *)
(***************************************************************************)
\* A Match row is written here without its id column, and the table is the bag of
\* its rows: POST /matches and the auto-match upserts never read the id, and confirm,
\* reject and delete name by it one row of the table (an id no row has is answered
\* 404 and changes nothing).

\* the key of the matches table's uniqueness constraint
SamePair(m, transaction_id, receipt_id) ==
    m.transaction_id = transaction_id /\ m.receipt_id = receipt_id

\* a plain INSERT: the row in conflict stays
InsertKeepingRows(rows, transaction_id, receipt_id, match_confidence, match_status, user_confirmed) ==
    rows (+) SetToBag({[transaction_id |-> transaction_id,
                        receipt_id |-> receipt_id,
                        match_confidence |-> match_confidence,
                        match_status |-> match_status,
                        user_confirmed |-> user_confirmed]})

\* INSERT OR REPLACE INTO matches (transaction_id, receipt_id, match_confidence,
\* match_status, user_confirmed): the row in conflict on the key is deleted
InsertOrReplace(rows, transaction_id, receipt_id, match_confidence, match_status, user_confirmed) ==
    LET kept == {m \in BagToSet(rows) : ~SamePair(m, transaction_id, receipt_id)}
    IN  [m \in kept |-> rows[m]]
            (+) SetToBag({[transaction_id |-> transaction_id,
                           receipt_id |-> receipt_id,
                           match_confidence |-> match_confidence,
                           match_status |-> match_status,
                           user_confirmed |-> user_confirmed]})

\* SELECT transaction_id / receipt_id FROM matches WHERE user_confirmed = 1
ConfirmedTransactionIds(rows) == {m.transaction_id : m \in {x \in BagToSet(rows) : x.user_confirmed}}
ConfirmedReceiptIds(rows) == {m.receipt_id : m \in {x \in BagToSet(rows) : x.user_confirmed}}

RECURSIVE SelectSeq2(_, _)
SelectSeq2(list, keep) ==
    IF list = <<>> THEN <<>>
    ELSE (IF Head(list).id \in keep THEN <<Head(list)>> ELSE <<>>) \o SelectSeq2(Tail(list), keep)

\* a pool that also leaves out the transactions of rejected rows
UnmatchedAndUnrejected(ledger, rows) ==
    SelectSeq2(ledger, {ledger[i].id : i \in 1..Len(ledger)}
                          \ {x.transaction_id : x \in {y \in BagToSet(rows) :
                                    y.user_confirmed \/ y.match_status = "rejected"}})

\* ... WHERE t.id NOT IN (SELECT transaction_id FROM matches WHERE user_confirmed = 1),
\* in rowid order (the bulk query has no ORDER BY)
UnmatchedTransactions(ledger, rows) ==
    SelectSeq2(ledger, {ledger[i].id : i \in 1..Len(ledger)} \ ConfirmedTransactionIds(rows))

\* ORDER BY t.transaction_date DESC: later dates first, equal dates in rowid order
RECURSIVE InsertByDate(_, _)
InsertByDate(sorted, t) ==
    IF sorted = <<>> THEN <<t>>
    ELSE IF NumberOf(ParseTransactionDate(Val(Head(sorted).transaction_date)))
              >= NumberOf(ParseTransactionDate(Val(t.transaction_date)))
         THEN <<Head(sorted)>> \o InsertByDate(Tail(sorted), t)
         ELSE <<t>> \o sorted

RECURSIVE OrderByDateDesc(_, _)
OrderByDateDesc(list, acc) ==
    IF list = <<>> THEN acc
    ELSE OrderByDateDesc(Tail(list), InsertByDate(acc, Head(list)))

PoolLimit == 100

\* the single-receipt query: ... ORDER BY t.transaction_date DESC LIMIT 100
RecentUnmatchedTransactions(ledger, rows) ==
    LET ordered == OrderByDateDesc(UnmatchedTransactions(ledger, rows), <<>>)
    IN  SubSeq(ordered, 1, Min(PoolLimit, Len(ordered)))

\* SELECT * FROM receipts r WHERE r.id NOT IN (SELECT receipt_id FROM matches WHERE
\* user_confirmed = 1) AND r.processing_status = 'completed'
\* AND r.extracted_amount IS NOT NULL, in rowid order
RECURSIVE UnmatchedReceiptsFrom(_, _, _)
UnmatchedReceiptsFrom(recs, rows, i) ==
    IF i > MaxReceipts THEN <<>>
    ELSE (IF /\ recs[i] # Null
             /\ i \notin ConfirmedReceiptIds(rows)
             /\ Val(recs[i]).processing_status = "completed"
             /\ Val(recs[i]).extracted_amount # Null
          THEN <<Val(recs[i])>> ELSE <<>>)
         \o UnmatchedReceiptsFrom(recs, rows, i + 1)

UnmatchedReceipts(recs, rows) == UnmatchedReceiptsFrom(recs, rows, 1)

(***************************************************************************)
(* The auto-match policy.                                                  *)
(***************************************************************************)
DefaultThreshold == 70
SingleThreshold == 70

\* const confidenceThreshold = req.body.threshold || 70
ConfidenceThreshold(input) == IF TruthyNum(input) THEN Val(input) ELSE DefaultThreshold

\* a strict comparison with the threshold
ExceedsThreshold(candidates, threshold) ==
    Len(candidates) > 0 /\ candidates[1].confidence > threshold

\* if (matches.length > 0 && matches[0].confidence >= confidenceThreshold)
ReachesThreshold(candidates, threshold) ==
    Len(candidates) > 0 /\ candidates[1].confidence >= threshold

\* the upserts one receipt gives rise to: none, or one for the top candidate
AutoMatchDecision(receipt, pool, threshold) ==
    LET candidates == findPotentialMatches(receipt, Some(pool))
    IN  IF ReachesThreshold(candidates, threshold)
        THEN << [transaction_id   |-> candidates[1].transaction.id,
                 receipt_id       |-> receipt.id,
                 match_confidence |-> candidates[1].confidence] >>
        ELSE <<>>

\* the upsert triggerAutoMatchForReceipt decides on: none, or one for the top
\* candidate its own findPotentialMatches returns
SingleAutoMatchDecision(receipt, pool) ==
    LET potentialMatches == findPotentialMatchesOfReceipts(receipt, Some(pool))
    IN  IF ReachesThreshold(potentialMatches, SingleThreshold)
        THEN << [transaction_id   |-> potentialMatches[1].transaction.id,
                 receipt_id       |-> receipt.id,
                 match_confidence |-> potentialMatches[1].confidence] >>
        ELSE <<>>

\* a loop that takes a chosen transaction out of the pool of the receipts after
RECURSIVE IssueUpsertsOnce(_, _, _)
IssueUpsertsOnce(list, pool, threshold) ==
    IF list = <<>> THEN <<>>
    ELSE AutoMatchDecision(Head(list), pool, threshold)
            \o IssueUpsertsOnce(
                   Tail(list),
                   SelectSeq2(pool, {pool[i].id : i \in 1..Len(pool)}
                                       \ {u.transaction_id :
                                              u \in {AutoMatchDecision(Head(list), pool, threshold)[k] :
                                                         k \in 1..Len(AutoMatchDecision(Head(list), pool, threshold))}}),
                   threshold)

\* receipts.forEach(...): the stmt.run calls in the order they are issued
RECURSIVE IssueUpserts(_, _, _)
IssueUpserts(list, pool, threshold) ==
    IF list = <<>> THEN <<>>
    ELSE AutoMatchDecision(Head(list), pool, threshold) \o IssueUpserts(Tail(list), pool, threshold)

Pending(b) == {i \in 1..Len(b.outcome) : b.outcome[i] = "pending"}

\* a finalize callback that waits for no stmt.run
FinalizeAtOnce(b) == TRUE

\* the statement runs what was queued on it in order: finalize, queued after every
\* stmt.run, has its callback called when none of them is left
FinalizeReady(b) == Pending(b) = {}

Disturbed == lastRun' = NoRun

(***************************************************************************)
(* POST /receipts/upload and PUT /receipts/:id                             *)
(***************************************************************************)
\* the INSERT of the upload handler; processReceiptOCR is then awaited
Upload(r) ==
    /\ receipts[r] = Null
    /\ \A q \in ReceiptIds : q < r => receipts[q] # Null
    /\ receipts' = [receipts EXCEPT ![r] = Some(NewReceipt(r))]
    /\ upload' = [upload EXCEPT ![r] = "ocr"]
    /\ Disturbed
    /\ UNCHANGED <<transactions, matches, single, bulk, call>>

\* processReceiptOCR has returned result; the UPDATE runs and its callback, which
\* triggers the auto-match of the receipt when an amount was extracted
OcrReturns(r, result, dbError) ==
    /\ upload[r] = "ocr"
    /\ upload' = [upload EXCEPT ![r] = "returned"]
    /\ IF dbError
       THEN UNCHANGED <<receipts, single>>
       ELSE /\ receipts' = [receipts EXCEPT ![r] = Some(WithOcrResults(Val(@), result))]
            /\ single' = IF TruthyNum(InCents(result.extractedAmount))
                         THEN [single EXCEPT ![r] = [IdleSingle EXCEPT !.pc = "get"]]
                         ELSE single
    /\ Disturbed
    /\ UNCHANGED <<transactions, matches, bulk, call>>

\* a catch branch that writes nothing
WithoutFailure(row) == row

\* the receipt row as the catch branch leaves it
WithFailure(row) == [row EXCEPT !.processing_status = "failed"]

\* processReceiptOCR has thrown: the catch branch
OcrThrows(r) ==
    /\ upload[r] = "ocr"
    /\ upload' = [upload EXCEPT ![r] = "threw"]
    /\ receipts' = [receipts EXCEPT ![r] = Some(WithFailure(Val(@)))]
    /\ Disturbed
    /\ UNCHANGED <<transactions, matches, single, bulk, call>>

\* an edit that also marks the receipt completed
WithEditCompleting(row, edit) ==
    [row EXCEPT !.extracted_amount = edit.extracted_amount,
                !.extracted_date = edit.extracted_date,
                !.extracted_merchant = edit.extracted_merchant,
                !.processing_status = "completed"]

\* the receipt row as PUT /receipts/:id leaves it
WithEdit(row, edit) ==
    [row EXCEPT !.extracted_amount = edit.extracted_amount,
                !.extracted_date = edit.extracted_date,
                !.extracted_merchant = edit.extracted_merchant]

UpdateReceipt(r, edit) ==
    /\ receipts[r] # Null
    /\ receipts' = [receipts EXCEPT ![r] = Some(WithEdit(Val(@), edit))]
    /\ receipts' # receipts
    /\ Disturbed
    /\ UNCHANGED <<transactions, matches, upload, single, bulk, call>>

(***************************************************************************)
(* triggerAutoMatchForReceipt                                              *)
(***************************************************************************)
\* db.get('SELECT * FROM receipts WHERE id = ?')
SingleGetReceipt(r) ==
    /\ single[r].pc = "get"
    /\ single' = [single EXCEPT ![r] =
                    IF receipts[r] = Null THEN IdleSingle
                    ELSE [pc |-> "txs", receipt |-> receipts[r], upsert |-> Null]]
    /\ Disturbed
    /\ UNCHANGED <<transactions, receipts, matches, upload, bulk, call>>

\* db.all(transactionQuery): the scoring and the decision
SingleReadTransactions(r) ==
    /\ single[r].pc = "txs"
    /\ LET decision == SingleAutoMatchDecision(Val(single[r].receipt),
                                               RecentUnmatchedTransactions(transactions, matches))
       IN  single' = [single EXCEPT ![r] =
                        IF decision = <<>> THEN IdleSingle
                        ELSE [pc |-> "run", receipt |-> single[r].receipt,
                              upsert |-> Some(decision[1])]]
    /\ Disturbed
    /\ UNCHANGED <<transactions, receipts, matches, upload, bulk, call>>

\* an auto-match upsert that writes its row as confirmed
AutoMatchUpsertConfirming(rows, u) ==
    InsertOrReplace(rows, u.transaction_id, u.receipt_id, u.match_confidence,
                    "confirmed", TRUE)

\* the row an auto-match upsert writes
AutoMatchUpsert(rows, u) ==
    InsertOrReplace(rows, u.transaction_id, u.receipt_id, u.match_confidence,
                    "auto_matched", FALSE)

\* db.run(INSERT OR REPLACE ...) and its callback
SingleUpsertDone(r, err) ==
    /\ single[r].pc = "run"
    /\ single' = [single EXCEPT ![r] = IdleSingle]
    /\ IF err THEN UNCHANGED matches
       ELSE matches' = AutoMatchUpsert(matches, Val(single[r].upsert))
    /\ Disturbed
    /\ UNCHANGED <<transactions, receipts, upload, bulk, call>>

(***************************************************************************)
(* POST /matches, PUT /matches/:id/confirm, /reject, DELETE /matches/:id   *)
(***************************************************************************)
CreateMatch(transaction_id, receipt_id, match_confidence, auto_confirm) ==
    /\ receipts[receipt_id] # Null
    /\ matches' = InsertOrReplace(matches, transaction_id, receipt_id,
                                  NumberOf(match_confidence),
                                  IF auto_confirm THEN "confirmed" ELSE "pending",
                                  auto_confirm)
    /\ Disturbed
    /\ UNCHANGED <<transactions, receipts, upload, single, bulk, call>>

\* UPDATE matches SET user_confirmed = 1, match_status = 'confirmed' WHERE id = ?
Confirmed(m) == [m EXCEPT !.user_confirmed = TRUE, !.match_status = "confirmed"]

ConfirmMatch(row) ==
    /\ BagIn(row, matches)
    /\ matches' = (matches (-) SetToBag({row})) (+) SetToBag({Confirmed(row)})
    /\ matches' # matches
    /\ Disturbed
    /\ UNCHANGED <<transactions, receipts, upload, single, bulk, call>>

\* a reject that leaves the flag as it was
RejectedStatusOnly(m) == [m EXCEPT !.match_status = "rejected"]

\* UPDATE matches SET user_confirmed = 0, match_status = 'rejected' WHERE id = ?
Rejected(m) == [m EXCEPT !.user_confirmed = FALSE, !.match_status = "rejected"]

RejectMatch(row) ==
    /\ BagIn(row, matches)
    /\ matches' = (matches (-) SetToBag({row})) (+) SetToBag({Rejected(row)})
    /\ matches' # matches
    /\ Disturbed
    /\ UNCHANGED <<transactions, receipts, upload, single, bulk, call>>

\* DELETE FROM matches WHERE id = ?
DeleteMatch(row) ==
    /\ BagIn(row, matches)
    /\ matches' = matches (-) SetToBag({row})
    /\ Disturbed
    /\ UNCHANGED <<transactions, receipts, upload, single, bulk, call>>

(***************************************************************************)
(* POST /matches/auto-match                                                *)
(***************************************************************************)
\* the request arrives and db.all(receiptQuery) runs
BulkStart(input) ==
    /\ bulk.pc = "idle"
    /\ bulk' = [IdleBulk EXCEPT !.pc = "receipts",
                                !.threshold = ConfidenceThreshold(input),
                                !.receipts = UnmatchedReceipts(receipts, matches)]
    /\ lastRun' = [clean |-> TRUE,
                   prev  |-> IF lastRun.prev # Null
                                /\ Val(lastRun.prev).threshold = ConfidenceThreshold(input)
                             THEN lastRun.prev ELSE Null]
    /\ UNCHANGED <<transactions, receipts, matches, upload, single, call>>

\* db.all(transactionQuery) runs; receipts.forEach issues the upserts and
\* stmt.finalize is queued behind them
BulkReadTransactions ==
    /\ bulk.pc = "receipts"
    /\ LET issued == IssueUpserts(bulk.receipts,
                                  UnmatchedTransactions(transactions, matches),
                                  bulk.threshold)
       IN  bulk' = [bulk EXCEPT !.pc = "running",
                                !.issued = issued,
                                !.outcome = [i \in 1..Len(issued) |-> "pending"]]
    /\ UNCHANGED <<transactions, receipts, matches, upload, single, lastRun, call>>

\* the oldest queued stmt.run executes and its callback runs
BulkUpsertDone(err) ==
    /\ bulk.pc = "running"
    /\ Pending(bulk) # {}
    /\ LET i == CHOOSE j \in Pending(bulk) : \A k \in Pending(bulk) : j <= k
       IN  IF err
           THEN /\ bulk' = [bulk EXCEPT !.outcome[i] = "err"]
                /\ lastRun' = NoRun
                /\ UNCHANGED matches
           ELSE /\ matches' = AutoMatchUpsert(matches, bulk.issued[i])
                /\ bulk' = [bulk EXCEPT !.outcome[i] = "ok",
                                        !.autoMatched = @ + 1]
                /\ UNCHANGED lastRun
    /\ UNCHANGED <<transactions, receipts, upload, single, call>>

\* the callback of stmt.finalize: res.json({matched: autoMatched, ...})
BulkFinalize ==
    /\ bulk.pc = "running"
    /\ FinalizeReady(bulk)
    /\ bulk' = [bulk EXCEPT !.pc = "idle",
                            !.response = Some([matched |-> bulk.autoMatched,
                                               totalReceipts |-> Len(bulk.receipts),
                                               threshold |-> bulk.threshold])]
    /\ lastRun' = [clean |-> FALSE,
                   prev  |-> IF lastRun.clean
                             THEN Some([rows |-> matches, threshold |-> bulk.threshold,
                                        issued |-> bulk.issued, again |-> lastRun.prev # Null])
                             ELSE Null]
    /\ UNCHANGED <<transactions, receipts, matches, upload, single, call>>

(***************************************************************************)
(* POST /transactions/import and PUT /transactions/:id                     *)
(* (backend/routes/transactions.js).  A CSV file is the sequence of its    *)
(* rows, a row the texts of its Transaction Date, Description and Amount   *)
(* columns.  The import in flight is kept in call.                         *)
(***************************************************************************)
\* dateStr.match(/^(\d{1,2})\/(\d{1,2})\/(\d{4})$/) and the YYYY-MM-DD built from
\* it; Null when the row is left out (no date, format not recognized, or
\* new Date(transactionDate) invalid)
TransactionDateOf(dateStr) ==
    LET p == SplitOn(dateStr, {"/"}, "", <<>>)
    IN  IF /\ Len(p) = 3
           /\ \A i \in 1..3 : Len(p[i]) >= 1 /\ AllDigits(p[i])
           /\ Len(p[1]) <= 2 /\ Len(p[2]) <= 2 /\ Len(p[3]) = 4
           /\ ValidYMD(ParseNat(p[3], 0), ParseNat(p[1], 0), ParseNat(p[2], 0))
        THEN Some(p[3] \o "-" \o PadStart2(p[1]) \o "-" \o PadStart2(p[2]))
        ELSE Null

\* parseFloat(row['Amount']) || 0, in cents: an optional sign, digits and at most
\* two decimals
UnsignedCents(amount) ==
    IF amount = Null THEN 0 ELSE Val(amount).n * Pow10(2 - Val(amount).k)
AmountOf(text) ==
    IF text # "" /\ Head(text) = "-" THEN 0 - UnsignedCents(parseFloat(Tail(text)))
    ELSE UnsignedCents(parseFloat(text))

\* `${n}` for a number of cents: 500 is "5", 550 is "5.5", 505 is "5.05"
NumberText(cents) ==
    NatToString(cents \div 100)
      \o (IF cents % 100 = 0 THEN ""
          ELSE IF cents % 10 = 0 THEN "." \o NatToString((cents % 100) \div 10)
          ELSE "." \o PadStart2(NatToString(cents % 100)))

\* s.replace(/[^a-zA-Z0-9]/g, '_')
RECURSIVE Underscored(_)
Underscored(s) ==
    IF s = "" THEN ""
    ELSE (IF Head(s) \in UpperLetters \cup LowerLetters \cup DigitChars
          THEN CharAt(s, 1) ELSE "_") \o Underscored(Tail(s))

\* `${transactionDate}_${description}_${Math.abs(amount)}`.replace(...)
ChaseTransactionId(transactionDate, description, amount) ==
    Underscored(transactionDate \o "_" \o description \o "_" \o NumberText(Abs(amount)))

\* on('data'): the rows pushed on the list, in order
RECURSIVE ParsedRows(_)
ParsedRows(csv) ==
    IF csv = <<>> THEN <<>>
    ELSE (IF TransactionDateOf(Head(csv).date) = Null THEN <<>>
          ELSE << [transaction_date |-> Val(TransactionDateOf(Head(csv).date)),
                   description |-> Head(csv).description,
                   amount |-> AmountOf(Head(csv).amount),
                   chase_transaction_id |->
                       ChaseTransactionId(Val(TransactionDateOf(Head(csv).date)),
                                          Head(csv).description,
                                          AmountOf(Head(csv).amount))] >>)
         \o ParsedRows(Tail(csv))

\* the column chase_transaction_id is unique: the rows in conflict with a new one
Conflicting(ledger, row) ==
    {k \in DOMAIN ledger : ledger[k].chase_transaction_id = row.chase_transaction_id}

\* INSERT OR IGNORE INTO transactions: the table afterwards
InsertOrIgnore(ledger, row) ==
    IF Conflicting(ledger, row) # {} THEN ledger
    ELSE Append(ledger, [id |-> Len(ledger) + 1,
                         transaction_date |-> Some(row.transaction_date),
                         description |-> Some(row.description),
                         amount |-> row.amount,
                         chase_transaction_id |-> row.chase_transaction_id])

MaxLedger == 3

IdleImport ==
    [op |-> "import", pc |-> "idle", csv |-> <<>>, queued |-> <<>>, done |-> 0,
     importCount |-> 0, skipCount |-> 0, response |-> Null, again |-> FALSE]

\* the file has been read: on('end') queues a stmt.run for every row of the list and
\* stmt.finalize behind them; again: the file is the one of the import before
ImportStart(csv) ==
    /\ call.op = "import"
    /\ call.pc = "idle"
    /\ Len(transactions) + Len(ParsedRows(csv)) <= MaxLedger
    /\ call' = [IdleImport EXCEPT !.pc = "running", !.csv = csv,
                                  !.queued = ParsedRows(csv),
                                  !.again = call.response # Null /\ call.csv = csv]
    /\ UNCHANGED dbVars

\* the oldest queued stmt.run executes and its callback counts the row as imported
\* (this.changes > 0) or skipped
ImportInsertDone ==
    /\ call.op = "import"
    /\ call.pc = "running"
    /\ call.done < Len(call.queued)
    /\ transactions' = InsertOrIgnore(transactions, call.queued[call.done + 1])
    /\ call' = [call EXCEPT !.done = @ + 1,
                            !.importCount = IF transactions' # transactions THEN @ + 1 ELSE @,
                            !.skipCount = IF transactions' # transactions THEN @ ELSE @ + 1]
    /\ UNCHANGED <<receipts, matches, upload, single, bulk, lastRun>>

\* the callback of stmt.finalize: res.json({imported, skipped, total})
ImportFinalize ==
    /\ call.op = "import"
    /\ call.pc = "running"
    /\ call.done = Len(call.queued)
    /\ call' = [call EXCEPT !.pc = "idle", !.queued = <<>>, !.done = 0,
                            !.importCount = 0, !.skipCount = 0,
                            !.response = Some([imported |-> call.importCount,
                                               skipped |-> call.skipCount,
                                               total |-> Len(call.queued)])]
    /\ UNCHANGED dbVars

\* PUT /transactions/:id: UPDATE transactions SET description = ?, amount = ?, ...
UpdateTransaction(id, description, amount) ==
    /\ call.op = "import"
    /\ \E k \in DOMAIN transactions :
          /\ transactions[k].id = id
          /\ transactions' = [transactions EXCEPT ![k].description = Some(description),
                                                  ![k].amount = amount]
    /\ UNCHANGED <<receipts, matches, upload, single, bulk, lastRun, call>>

(***************************************************************************)
(* PUT /companies/:id/users/:userId/role and DELETE /companies/:id/users/  *)
(* :userId (backend/routes/companies.js).  The user_companies rows of the  *)
(* requester's current company are a function of the user id, Null for a   *)
(* user without a row; with the requests in flight on them, one for every  *)
(* requester, they are kept in call.                                       *)
(***************************************************************************)
MaxUsers == 3
UserIds == 1..MaxUsers
MaxRequests == 3

\* req.user.currentCompany.id
CurrentCompany == 1

validRoles == {"user", "manager", "admin"}

\* SELECT COUNT(*) as admin_count FROM user_companies
\* WHERE company_id = ? AND role = 'admin' AND status = 'active'
ActiveAdmins(user_companies) ==
    {u \in UserIds : /\ user_companies[u] # Null
                     /\ Val(user_companies[u]).role = "admin"
                     /\ Val(user_companies[u]).status = "active"}

\* requireCompanyAccess, requireRole('admin'): the requester is an active admin of
\* the company when the request is let through to the handler
RequireAdmin(user_companies, u) == u \in ActiveAdmins(user_companies)

IdleRequest == [pc |-> "idle", userId |-> 0, role |-> "", admin_count |-> 0, response |-> Null]

\* the request is answered with the status
Answered(status) == [IdleRequest EXCEPT !.response = Some(status)]

\* the handler of PUT /:id/users/:userId/role up to its db.run
RoleRequest(u, companyId, userId, role) ==
    /\ call.op = "companies"
    /\ call.requests[u].pc = "idle"
    /\ call.admitted < MaxRequests
    /\ RequireAdmin(call.user_companies, u)
    /\ call' = [call EXCEPT !.admitted = @ + 1,
                            !.requests[u] =
                                IF companyId # CurrentCompany THEN Answered(403)
                                ELSE IF userId = u THEN Answered(400)
                                ELSE IF role \notin validRoles THEN Answered(400)
                                ELSE [IdleRequest EXCEPT !.pc = "update", !.userId = userId,
                                                         !.role = role]]
    /\ UNCHANGED dbVars

\* UPDATE user_companies SET role = ? WHERE user_id = ? AND company_id = ? and its
\* callback
RoleUpdateDone(u, err) ==
    /\ call.op = "companies"
    /\ call.requests[u].pc = "update"
    /\ call' = IF err THEN [call EXCEPT !.requests[u] = Answered(500)]
               ELSE IF call.user_companies[call.requests[u].userId] = Null
               THEN [call EXCEPT !.requests[u] = Answered(404)]
               ELSE [call EXCEPT !.requests[u] = Answered(200),
                                 !.user_companies[call.requests[u].userId] =
                                     Some([Val(@) EXCEPT !.role = call.requests[u].role])]
    /\ UNCHANGED dbVars

\* the handler of DELETE /:id/users/:userId up to its first db.get
RemoveRequest(u, companyId, userId) ==
    /\ call.op = "companies"
    /\ call.requests[u].pc = "idle"
    /\ call.admitted < MaxRequests
    /\ RequireAdmin(call.user_companies, u)
    /\ call' = [call EXCEPT !.admitted = @ + 1,
                            !.requests[u] =
                                IF companyId # CurrentCompany THEN Answered(403)
                                ELSE IF userId = u THEN Answered(400)
                                ELSE [IdleRequest EXCEPT !.pc = "count", !.userId = userId]]
    /\ UNCHANGED dbVars

\* db.get(SELECT COUNT(*) as admin_count ...) and its callback, which issues the
\* second db.get
RemoveCountDone(u, err) ==
    /\ call.op = "companies"
    /\ call.requests[u].pc = "count"
    /\ call' = IF err THEN [call EXCEPT !.requests[u] = Answered(500)]
               ELSE [call EXCEPT !.requests[u].pc = "role",
                                 !.requests[u].admin_count =
                                     Cardinality(ActiveAdmins(call.user_companies))]
    /\ UNCHANGED dbVars

\* if (membership.role === 'admin' && result.admin_count <= 1)
LastAdmin(role, admin_count) == role = "admin" /\ admin_count <= 1

\* db.get(SELECT role FROM user_companies WHERE user_id = ? AND company_id = ?) and
\* its callback, which issues the DELETE unless it answers
RemoveRoleDone(u, err) ==
    /\ call.op = "companies"
    /\ call.requests[u].pc = "role"
    /\ call' = IF err THEN [call EXCEPT !.requests[u] = Answered(500)]
               ELSE IF call.user_companies[call.requests[u].userId] = Null
               THEN [call EXCEPT !.requests[u] = Answered(404)]
               ELSE IF LastAdmin(Val(call.user_companies[call.requests[u].userId]).role,
                                 call.requests[u].admin_count)
               THEN [call EXCEPT !.requests[u] = Answered(400)]
               ELSE [call EXCEPT !.requests[u].pc = "delete"]
    /\ UNCHANGED dbVars

\* DELETE FROM user_companies WHERE user_id = ? AND company_id = ? and its callback
RemoveDeleteDone(u, err) ==
    /\ call.op = "companies"
    /\ call.requests[u].pc = "delete"
    /\ call' = IF err THEN [call EXCEPT !.requests[u] = Answered(500)]
               ELSE [call EXCEPT !.requests[u] = Answered(200),
                                 !.user_companies[call.requests[u].userId] = Null]
    /\ UNCHANGED dbVars

(***************************************************************************)
(* The system.                                                             *)
(***************************************************************************)
MatchRequests ==
    \/ \E t \in TransactionIds, r \in ReceiptIds, c \in ConfidenceInputs, a \in BOOLEAN :
          CreateMatch(t, r, c, a)
    \/ \E row \in BagToSet(matches) : ConfirmMatch(row)
    \/ \E row \in BagToSet(matches) : RejectMatch(row)
    \/ \E row \in BagToSet(matches) : DeleteMatch(row)

BulkRun(errors) ==
    \/ \E input \in ThresholdInputs : BulkStart(input)
    \/ BulkReadTransactions
    \/ \E err \in errors : BulkUpsertDone(err)
    \/ BulkFinalize

SingleRun ==
    \/ \E r \in ReceiptIds : SingleGetReceipt(r)
    \/ \E r \in ReceiptIds : SingleReadTransactions(r)
    \/ \E r \in ReceiptIds, err \in BOOLEAN : SingleUpsertDone(r, err)

ReceiptRequests ==
    \/ \E r \in ReceiptIds : Upload(r)
    \/ \E r \in ReceiptIds, result \in OcrResults, dbError \in BOOLEAN : OcrReturns(r, result, dbError)
    \/ \E r \in ReceiptIds : OcrThrows(r)
    \/ \E r \in ReceiptIds, edit \in ReceiptEdits : UpdateReceipt(r, edit)

\* The match requests and the bulk auto-match over two extracted receipts.
Init == InitUploaded(2) /\ call = NoCall
Next == (MatchRequests \/ BulkRun(BOOLEAN)) /\ UNCHANGED call
Spec == Init /\ [][Next]_vars

\* Uploads with their single-receipt auto-match, manual matches and the bulk
\* auto-match, over one extracted receipt and a second one uploaded meanwhile.
InitAuto == InitUploaded(1) /\ call = NoCall
NextAuto ==
    /\ \/ Upload(2)
       \/ \E r \in ReceiptIds, result \in OcrResults : OcrReturns(r, result, FALSE)
       \/ \E r \in ReceiptIds : OcrThrows(r)
       \/ SingleRun
       \/ \E t \in TransactionIds, r \in ReceiptIds, c \in ConfidenceInputs, a \in BOOLEAN :
             CreateMatch(t, r, c, a)
       \/ BulkRun({FALSE})
    /\ UNCHANGED call
SpecAuto == InitAuto /\ [][NextAuto]_vars

\* The life of the receipts: upload, extraction, single-receipt auto-match, edits.
InitReceipts == InitEmpty /\ call = NoCall
NextReceipts == (ReceiptRequests \/ SingleRun) /\ UNCHANGED call
SpecReceipts == InitReceipts /\ [][NextReceipts]_vars

(***************************************************************************)
(* Calls of the scoring engine on its own.                                 *)
(***************************************************************************)
ScoredAmounts == {Null, Some(0), Some(2000), Some(2050)}
ScoredDates == {Null, Some("07/22/2025"), Some("7/23/25"), Some("13/45/2025")}
ScoredMerchants == {Null, Some("OpenAI LLC"), Some("Starlink Internet Services")}

ScoredReceipts ==
    {[NewReceipt(1) EXCEPT !.processing_status = "completed",
                           !.extracted_amount = a,
                           !.extracted_date = d,
                           !.extracted_merchant = m] :
        a \in ScoredAmounts, d \in ScoredDates, m \in ScoredMerchants}

ScoredPools ==
    {Null, Some(<<>>), Some(Ledger), Some(<<Ledger[2]>>), Some(<<Ledger[2], Ledger[1]>>)}

InitScore ==
    /\ InitEmpty
    /\ \E receipt \in ScoredReceipts, pool \in ScoredPools :
          call = [op |-> "findPotentialMatches", receipt |-> receipt,
                  transactions |-> pool, returned |-> FALSE, result |-> <<>>]

Score ==
    /\ call.op = "findPotentialMatches"
    /\ ~call.returned
    /\ call' = [call EXCEPT !.returned = TRUE,
                            !.result = findPotentialMatches(call.receipt, call.transactions)]
    /\ UNCHANGED dbVars

NextScore == Score
SpecScore == InitScore /\ [][NextScore]_vars

(***************************************************************************)
(* Calls of processReceiptOCR on its own.                                  *)
(***************************************************************************)
DocumentTypes == {PdfType, "image/png", "image/jpeg"}

\* the texts pdf-parse or Tesseract yields here: up to three lines, any of them
\* missing
DocumentHeaders == {"", "Acme Corp\n", "Acme Corp.\n"}
DocumentDates == {"", "7/22/25\n", "Date paid July 22, 2025\n"}
DocumentAmounts == {"", " \n", "$5", "Total $20.00"}
DocumentTexts ==
    {h \o d \o a : h \in DocumentHeaders, d \in DocumentDates, a \in DocumentAmounts}

InitExtract ==
    /\ InitEmpty
    /\ \E mimeType \in DocumentTypes, text \in DocumentTexts, readable \in BOOLEAN :
          call = [op |-> "processReceiptOCR", mimeType |-> mimeType, text |-> text,
                  readable |-> readable, returned |-> FALSE, threw |-> FALSE,
                  result |-> Null]

\* one call: the error of a text source that cannot be read is thrown again
\* by the catch clause, otherwise the fields are returned
Extract ==
    /\ call.op = "processReceiptOCR"
    /\ ~call.returned
    /\ ~call.threw
    /\ call' = IF call.readable
               THEN [call EXCEPT !.returned = TRUE,
                                 !.result = Some(processReceiptOCR(call.mimeType, call.text))]
               ELSE [call EXCEPT !.threw = TRUE]
    /\ UNCHANGED dbVars

NextExtract == Extract
SpecExtract == InitExtract /\ [][NextExtract]_vars

(***************************************************************************)
(* Calls of the scoring engine on one transaction and on small pools.      *)
(***************************************************************************)
\* the receipt is of 100.00; the amounts, dates and descriptions of the one
\* transaction it is scored against
ProbeAmounts ==
    {10000, -10000, -10001, 10100, -10100, -10101, -10500, 10501, -11000, 11000, -11001,
     -9000, -8999, 0}
ProbeDates ==
    {Null, Some("2025-07-22"), Some("2025-07-23"), Some("2025-07-21"), Some("2025-07-24"),
     Some("2025-07-25"), Some("2025-07-26"), Some("2025-07-19"), Some("not a date")}
ProbeDescriptions == {Null, Some("OPENAI *CHATGPT SUBSCR"), Some("STARLINK INTERNET")}

ProbeTransactions ==
    {[id |-> 1, transaction_date |-> d, description |-> w, amount |-> a] :
        d \in ProbeDates, w \in ProbeDescriptions, a \in ProbeAmounts}

RankedDates == {Null, Some("07/22/2025"), Some("7/23/25"), Some("13/45/2025")}
RankedMerchants ==
    {Null, Some("OpenAI LLC"), Some("Starlink Internet Services"), Some("Acme Starlink"),
     Some("Acme Star Shop"), Some("Co of AB LLC"), Some("Starlink Internet"),
     Some("Star Link Net Aaa Bbb Ccc Ddd Eee Fff Ggg")}

RankedReceipts ==
    {[NewReceipt(1) EXCEPT !.processing_status = "completed",
                           !.extracted_amount = Some(10000),
                           !.extracted_date = d,
                           !.extracted_merchant = m] :
        d \in RankedDates, m \in RankedMerchants}

\* the transactions the pools of several are made of
PoolLedger ==
    << [id |-> 1, transaction_date |-> Some("2025-07-22"),
        description |-> Some("OPENAI *CHATGPT SUBSCR"), amount |-> -10000],
       [id |-> 2, transaction_date |-> Some("2025-07-23"),
        description |-> Some("STARLINK INTERNET"), amount |-> -10000],
       [id |-> 3, transaction_date |-> Some("2025-07-22"),
        description |-> Some("STARLINK INTERNET"), amount |-> 10000],
       [id |-> 4, transaction_date |-> Null, description |-> Null, amount |-> -10100],
       [id |-> 5, transaction_date |-> Some("2025-07-22"), description |-> Null,
        amount |-> -11001] >>

MaxPool == 3

\* the pools: one probe transaction, or 2..MaxPool transactions of PoolLedger in
\* any order
RankedPools ==
    {<<t>> : t \in ProbeTransactions}
      \cup UNION {{[i \in 1..n |-> PoolLedger[f[i]]] :
                     f \in {g \in [1..n -> 1..Len(PoolLedger)] :
                               \A i, j \in 1..n : i # j => g[i] # g[j]}} :
                  n \in 2..MaxPool}

InitRank ==
    /\ InitEmpty
    /\ \E receipt \in RankedReceipts, pool \in RankedPools :
          call = [op |-> "findPotentialMatches", receipt |-> receipt,
                  transactions |-> Some(pool), returned |-> FALSE, result |-> <<>>]

NextRank == Score
SpecRank == InitRank /\ [][NextRank]_vars

(***************************************************************************)
(* Calls of processReceiptOCR on texts of labelled amounts.                *)
(***************************************************************************)
\* the lines of the texts: any of them missing, some with an amount that is out of
\* bounds
PaymentLines == {"", "Payment 30.00\n", "Charge: 60000\n", "Balance Due: 50000\n"}
MultiLineTotals == {"", "Total\n$4,763.00\n", "Total\n$50,000.00\n"}
GrandTotalLines == {"", "Grand Total 20.00\n", "Grand Total 50000\n"}
TotalLines == {"", "TOTAL: 12.50\n"}
SubtotalLines == {"", "Subtotal 10.00\n", "Subtotal 75,000.00\n"}
TaxLines == {"", "Tax 5.00\n", "Tax 10000\n", "VAT 0.00\n"}
AmountTexts ==
    {p \o m \o g \o t \o s \o x :
        p \in PaymentLines, m \in MultiLineTotals, g \in GrandTotalLines,
        t \in TotalLines, s \in SubtotalLines, x \in TaxLines}

InitAmounts ==
    /\ InitEmpty
    /\ \E text \in AmountTexts :
          call = [op |-> "processReceiptOCR", mimeType |-> "image/png", text |-> text,
                  readable |-> TRUE, returned |-> FALSE, threw |-> FALSE,
                  result |-> Null]

NextAmounts == Extract
SpecAmounts == InitAmounts /\ [][NextAmounts]_vars

(***************************************************************************)
(* The scoring engine and the bulk auto-match over the same receipt and    *)
(* ledger.                                                                 *)
(***************************************************************************)
StoredReceipts ==
    {receipt \in RankedReceipts :
        receipt.extracted_merchant \in
            {Null, Some("OpenAI LLC"), Some("Starlink Internet"), Some("Acme Starlink")}}

StoredPools ==
    {pool \in RankedPools : Len(pool) = 2}
      \cup {<<PoolLedger[k]>> : k \in DOMAIN PoolLedger}

\* receipt 1 was uploaded and extracted before the ledger was imported
InitStore ==
    \E receipt \in StoredReceipts, pool \in StoredPools :
        /\ transactions = pool
        /\ receipts = [r \in ReceiptIds |-> IF r = 1 THEN Some(receipt) ELSE Null]
        /\ matches = EmptyBag
        /\ upload = [r \in ReceiptIds |-> IF r = 1 THEN "returned" ELSE "none"]
        /\ single = [r \in ReceiptIds |-> IdleSingle]
        /\ bulk = IdleBulk
        /\ lastRun = NoRun
        /\ call = [op |-> "findPotentialMatches", receipt |-> receipt,
                   transactions |-> Some(pool), returned |-> FALSE, result |-> <<>>]

NextStore ==
    \/ Score
    \/ BulkRun({FALSE}) /\ UNCHANGED call
SpecStore == InitStore /\ [][NextStore]_vars

(***************************************************************************)
(* Imports of the ledger and corrections of its transactions.              *)
(***************************************************************************)
\* the rows of the CSV files imported here
CsvRows ==
    { [date |-> "7/22/2025", description |-> "COFFEE", amount |-> "-5.00"],
      [date |-> "07/22/2025", description |-> "COFFEE", amount |-> "-5"],
      [date |-> "7/22/2025", description |-> "Coffee shop", amount |-> "-5.00"],
      [date |-> "2025-07-22", description |-> "COFFEE", amount |-> "-5.00"] }
MaxCsvRows == 2
CsvFiles == UNION {[1..n -> CsvRows] : n \in 1..MaxCsvRows}
\* the corrections sent here
CorrectedDescriptions == {"Coffee shop"}
CorrectedAmounts == {-500, -550}

InitImport ==
    /\ transactions = <<>>
    /\ receipts = [r \in ReceiptIds |-> Null]
    /\ matches = EmptyBag
    /\ upload = [r \in ReceiptIds |-> "none"]
    /\ single = [r \in ReceiptIds |-> IdleSingle]
    /\ bulk = IdleBulk
    /\ lastRun = NoRun
    /\ call = IdleImport

NextImport ==
    \/ \E csv \in CsvFiles : ImportStart(csv)
    \/ ImportInsertDone
    \/ ImportFinalize
    \/ \E id \in 1..MaxLedger, description \in CorrectedDescriptions,
          amount \in CorrectedAmounts : UpdateTransaction(id, description, amount)
SpecImport == InitImport /\ [][NextImport]_vars

(***************************************************************************)
(* Calls of processReceiptOCR on texts of dated lines.                     *)
(***************************************************************************)
\* the lines of the texts: any of them missing, written dates that convert and
\* written dates that do not, numeric dates with and without a label
InvoiceDateLines == {"", "Invoice date: Foo 12, 2025\n", "Invoice Date: April 1, 2025\n"}
PaidDateLines == {"", "Bill date: Jul 22, 2025\n", "Date paidJuly 22, 2025\n"}
LabelledDateLines == {"", "Date: 7/2/25\n", "Due date: March 3 2025\n"}
BareDateLines == {"", "1-2-2025\n", "September 5, 2024\n"}
DateTexts ==
    {i \o p \o l \o b :
        i \in InvoiceDateLines, p \in PaidDateLines, l \in LabelledDateLines,
        b \in BareDateLines}

InitDates ==
    /\ InitEmpty
    /\ \E text \in DateTexts :
          call = [op |-> "processReceiptOCR", mimeType |-> "image/png", text |-> text,
                  readable |-> TRUE, returned |-> FALSE, threw |-> FALSE,
                  result |-> Null]

NextDates == Extract
SpecDates == InitDates /\ [][NextDates]_vars

(***************************************************************************)
(* Role changes and removals of the users of one company.                  *)
(***************************************************************************)
\* the rows a user can have in the company
MemberRows ==
    {[role |-> "admin", status |-> "active"], [role |-> "user", status |-> "active"],
     [role |-> "admin", status |-> "inactive"]}
CompanyIds == {CurrentCompany, 2}
RoleInputs == {"user", "admin", "owner"}

\* a company with at least one active admin and no request in flight
InitCompanies ==
    /\ InitEmpty
    /\ \E rows \in [UserIds -> {Null} \cup {Some(row) : row \in MemberRows}] :
          /\ ActiveAdmins(rows) # {}
          /\ call = [op |-> "companies", user_companies |-> rows,
                     requests |-> [u \in UserIds |-> IdleRequest], admitted |-> 0]

NextCompanies ==
    \/ \E u \in UserIds, companyId \in CompanyIds, userId \in UserIds, role \in RoleInputs :
          RoleRequest(u, companyId, userId, role)
    \/ \E u \in UserIds, err \in BOOLEAN : RoleUpdateDone(u, err)
    \/ \E u \in UserIds, companyId \in CompanyIds, userId \in UserIds :
          RemoveRequest(u, companyId, userId)
    \/ \E u \in UserIds, err \in BOOLEAN : RemoveCountDone(u, err)
    \/ \E u \in UserIds, err \in BOOLEAN : RemoveRoleDone(u, err)
    \/ \E u \in UserIds, err \in BOOLEAN : RemoveDeleteDone(u, err)
SpecCompanies == InitCompanies /\ [][NextCompanies]_vars

(***************************************************************************)
(* The Match table.                                                        *)
(***************************************************************************)
Rows == BagToSet(matches)

\* C1: in every state reached by create-match, auto-match, confirm, reject and delete
\* requests, no transaction and no receipt is referenced by more than one Match row
\* whose user_confirmed flag is true.
AtMostOneConfirmedMatch ==
    \A m1, m2 \in Rows :
        (/\ m1.user_confirmed
         /\ m2.user_confirmed
         /\ (m1.transaction_id = m2.transaction_id \/ m1.receipt_id = m2.receipt_id))
        => (m1 = m2 /\ CopiesIn(m1, matches) = 1)

\* C2: after any sequence of manual match creations and bulk or single-receipt
\* auto-match runs there is at most one Match row for each (transaction, receipt)
\* pair: a new match for a pair that has a row replaces that row.
AtMostOneRowPerPair ==
    \A m1, m2 \in Rows :
        SamePair(m1, m2.transaction_id, m2.receipt_id)
        => (m1 = m2 /\ CopiesIn(m1, matches) = 1)

\* a bulk upsert has written the row of a pair, and a manual match created for the
\* same pair afterwards stands in its place
ManualMatchReplacedAutoMatch ==
    \E i \in 1..Len(bulk.issued) :
        /\ bulk.outcome[i] = "ok"
        /\ \E m \in Rows :
              /\ SamePair(m, bulk.issued[i].transaction_id, bulk.issued[i].receipt_id)
              /\ m.match_status = "pending"

\* C5: the 'matched' count of the bulk auto-match is sent only once the callback of
\* every issued upsert has run, and equals the number of upserts of the run that
\* completed without error.
MatchedCountsCompletedUpserts ==
    bulk.response # Null =>
        /\ Pending(bulk) = {}
        /\ Val(bulk.response).matched
              = Cardinality({i \in 1..Len(bulk.outcome) : bulk.outcome[i] = "ok"})

\* a run of two upserts, one of which failed, has answered
ResponseAfterFailedUpsert ==
    /\ bulk.response # Null
    /\ Len(bulk.issued) = 2
    /\ \E i, j \in 1..Len(bulk.outcome) : bulk.outcome[i] = "ok" /\ bulk.outcome[j] = "err"

\* C6: every Match row has user_confirmed = true if and only if its status is
\* 'confirmed'.
ConfirmedFlagFollowsStatus ==
    \A m \in Rows : m.user_confirmed <=> (m.match_status = "confirmed")

\* a confirmed match was rejected while another match stands confirmed
RejectedBesideConfirmed ==
    \E m1, m2 \in Rows :
        /\ m1.match_status = "rejected"
        /\ m2.match_status = "confirmed"
        /\ m1.receipt_id = m2.receipt_id

(***************************************************************************)
(* The life of a receipt.                                                  *)
(***************************************************************************)
StatusOf(recs, r) == Val(recs[r]).processing_status

\* C7: a receipt is created with status 'processing'; its status changes only from
\* 'processing' to 'completed' or to 'failed' (hence at most once), and only when the
\* extraction of its upload ends: an update of amount, date and merchant leaves it.
ReceiptStatusChangesOnce ==
    [][\A r \in ReceiptIds :
          /\ (receipts[r] = Null /\ receipts'[r] # Null)
                => StatusOf(receipts', r) = "processing"
          /\ receipts[r] # Null
                => /\ receipts'[r] # Null
                   /\ StatusOf(receipts', r) # StatusOf(receipts, r)
                         => /\ StatusOf(receipts, r) = "processing"
                            /\ StatusOf(receipts', r) \in {"completed", "failed"}
                            /\ upload[r] = "ocr"
                            /\ upload'[r] \in {"returned", "threw"}]_vars

\* a receipt whose extraction failed had its fields entered by hand
FailedReceiptEdited ==
    \E r \in ReceiptIds :
        /\ receipts[r] # Null
        /\ StatusOf(receipts, r) = "failed"
        /\ Val(receipts[r]).extracted_amount # Null

ExtractedReceiptLeavesProcessing ==
    \A r \in ReceiptIds :
        upload[r] \in {"returned", "threw"}
            => /\ receipts[r] # Null
               /\ StatusOf(receipts, r) \in {"completed", "failed"}

(***************************************************************************)
(* The extraction of the fields.                                           *)
(***************************************************************************)
\* C9: every call of processReceiptOCR on a readable document whose text is
\* empty, or is that of a PDF and has fewer than 10 characters once trimmed,
\* returns without an error, and the amount, the date and the merchant it
\* returns are all null.
NearEmptyTextExtractsNothing ==
    (/\ call.op = "processReceiptOCR"
     /\ call.readable
     /\ (call.returned \/ call.threw)
     /\ \/ trim(call.text) = ""
        \/ call.mimeType = PdfType /\ Len(trim(call.text)) < MinPdfTextLength)
       => /\ call.returned
          /\ ~call.threw
          /\ Val(call.result).extractedAmount = Null
          /\ Val(call.result).extractedDate = Null
          /\ Val(call.result).extractedMerchant = Null

\* a call of processReceiptOCR that returned, and what it returned
Extracted == call.op = "processReceiptOCR" /\ call.returned
Fields == Val(call.result)

\* C18: the amount returned is the grand total when one was found, otherwise the
\* total when one was found, otherwise the subtotal when one was found, otherwise
\* null, also when a tax was found.
MainAmountIsFirstOfThree ==
    Extracted =>
        /\ Fields.amountBreakdown.grandTotal # Null
              => Fields.extractedAmount = Fields.amountBreakdown.grandTotal
        /\ (Fields.amountBreakdown.grandTotal = Null /\ Fields.amountBreakdown.total # Null)
              => Fields.extractedAmount = Fields.amountBreakdown.total
        /\ (/\ Fields.amountBreakdown.grandTotal = Null
            /\ Fields.amountBreakdown.total = Null
            /\ Fields.amountBreakdown.subtotal # Null)
              => Fields.extractedAmount = Fields.amountBreakdown.subtotal
        /\ (/\ Fields.amountBreakdown.grandTotal = Null
            /\ Fields.amountBreakdown.total = Null
            /\ Fields.amountBreakdown.subtotal = Null)
              => Fields.extractedAmount = Null

\* a text with a tax and none of the other three was read: no amount is returned
ExtractedTaxAlone ==
    /\ Extracted
    /\ call.text = "Tax 5.00\n"
    /\ Fields.amountBreakdown =
          [subtotal |-> Null, tax |-> Some(Whole(5)), total |-> Null, grandTotal |-> Null]
    /\ Fields.extractedAmount = Null

\* C19: when a line that is 'total' alone is followed by a line that is a $ amount
\* alone, within bounds, the total is that amount, whether or not a payment or charge
\* label gave a total before and whether or not a 'total' label with another amount
\* follows; it is the amount returned unless a grand total was found.
MultiLineTotalPrevails ==
    (Extracted /\ includes(call.text, "Total\n$4,763.00\n")) =>
        /\ Fields.amountBreakdown.total = Some(Whole(4763))
        /\ Fields.amountBreakdown.grandTotal = Null
              => Fields.extractedAmount = Some(Whole(4763))

\* a text with a payment of 30.00, then 'Total' and '$4,763.00' on two lines, then
\* 'TOTAL: 12.50' was read and 4763 returned
ExtractedTotalOverTwoLines ==
    /\ Extracted
    /\ call.text = "Payment 30.00\nTotal\n$4,763.00\nTOTAL: 12.50\n"
    /\ Fields.extractedAmount = Some(Whole(4763))

\* C20: the amount returned, and each of grand total, total and subtotal, is null
\* or greater than 0 and less than 50,000; the tax is null or at least 0 and less
\* than 10,000.
AmountsWithinBounds ==
    Extracted =>
        /\ \A amount \in {Fields.extractedAmount, Fields.amountBreakdown.grandTotal,
                          Fields.amountBreakdown.total, Fields.amountBreakdown.subtotal} :
              amount # Null => /\ Less(Whole(0), Val(amount))
                               /\ Less(Val(amount), Whole(50000))
        /\ Fields.amountBreakdown.tax # Null
              => /\ ~Less(Val(Fields.amountBreakdown.tax), Whole(0))
                 /\ Less(Val(Fields.amountBreakdown.tax), Whole(10000))

\* a text whose grand total is 50000 and whose subtotal is 75,000.00 was read:
\* neither is stored
ExtractedBeyondBounds ==
    /\ Extracted
    /\ call.text = "Grand Total 50000\nSubtotal 75,000.00\nVAT 0.00\n"
    /\ Fields.amountBreakdown.grandTotal = Null
    /\ Fields.amountBreakdown.subtotal = Null
    /\ Fields.amountBreakdown.tax = Some(Whole(0))
    /\ Fields.extractedAmount = Null

\* the dates the matches give, Null for a match that gives none
RECURSIVE DatesOf(_)
DatesOf(found) ==
    IF found = <<>> THEN <<>> ELSE <<DateOfMatch(Head(found))>> \o DatesOf(Tail(found))
\* the dates the matches of the strategies give in the text, in the order of the
\* strategies and, within a strategy, of its matches
RECURSIVE DatesFound(_, _)
DatesFound(text, strategies) ==
    IF strategies = <<>> THEN <<>>
    ELSE DatesOf(matchAll(text, Head(strategies))) \o DatesFound(text, Tail(strategies))
\* date is the first of dates that is not Null, Null when there is none
FirstUsable(dates, date) ==
    IF date = Null THEN \A k \in 1..Len(dates) : dates[k] = Null
    ELSE \E k \in 1..Len(dates) : dates[k] = date /\ \A l \in 1..(k - 1) : dates[l] = Null
\* text is two digits, '/', two digits, '/' and four digits
PaddedDate(text) ==
    /\ Len(text) = 10
    /\ \A i \in {3, 6} : SubSeq(text, i, i) = "/"
    /\ \A i \in (1..10) \ {3, 6} : SubSeq(text, i, i) \in DigitChars

\* C23: the date returned is the date of the first match of the first strategy, in
\* the listed order, that gives a date, a written date that does not convert giving
\* none and raising no error, and null when no match gives one; a date that is not
\* a numeric date of the text is written MM/DD/YYYY with two-digit month and day,
\* 'Date paidJuly 22, 2025' giving 07/22/2025.
FirstUsableDateReturned ==
    (call.op = "processReceiptOCR" /\ call.readable /\ (call.returned \/ call.threw)) =>
        /\ call.returned
        /\ FirstUsable(DatesFound(call.text, dateStrategies), Fields.extractedDate)
        /\ Fields.extractedDate # Null
              => \/ includes(call.text, Val(Fields.extractedDate))
                 \/ PaddedDate(Val(Fields.extractedDate))
        /\ call.text = "Date paidJuly 22, 2025\n"
              => Fields.extractedDate = Some("07/22/2025")
        /\ call.text = "Invoice date: Foo 12, 2025\nBill date: Jul 22, 2025\n"
              => Fields.extractedDate = Some("07/22/2025")
        /\ call.text = "Invoice date: Foo 12, 2025\nDue date: March 3 2025\n1-2-2025\n"
              => Fields.extractedDate = Some("03/03/2025")

\* a text was read whose first strategy finds two written dates: the first does not
\* convert and the second is returned
ExtractedSecondWrittenDate ==
    /\ Extracted
    /\ call.text = "Invoice date: Foo 12, 2025\nBill date: Jul 22, 2025\n"
    /\ DatesOf(matchAll(call.text, dateStrategies[1])) = <<Null, Some("07/22/2025")>>
    /\ Fields.extractedDate = Some("07/22/2025")

(***************************************************************************)
(* The match-scoring engine.                                               *)
(***************************************************************************)
\* C10: findPotentialMatches returns the empty list for every receipt that has no
\* extracted amount, whatever the transactions, and for every receipt when the
\* transaction list is empty or absent.
NoAmountOrNoTransactionsScoresNothing ==
    (/\ call.op = "findPotentialMatches"
     /\ call.returned
     /\ \/ call.receipt.extracted_amount = Null
        \/ call.transactions = Null
        \/ call.transactions = Some(<<>>))
    => call.result = <<>>

\* a receipt without amount whose date and merchant agree with a transaction of the
\* list was scored
ScoredWithoutAmount ==
    /\ call.op = "findPotentialMatches"
    /\ call.returned
    /\ call.receipt.extracted_amount = Null
    /\ call.receipt.extracted_date = Some("07/22/2025")
    /\ call.receipt.extracted_merchant = Some("OpenAI LLC")
    /\ call.transactions = Some(Ledger)

\* a call of findPotentialMatches that returned
Scored == call.op = "findPotentialMatches" /\ call.returned /\ call.transactions # Null
ScoredPool == Val(call.transactions)
\* the candidates of the result that are for the transaction
CandidatesOf(result, transaction) ==
    {i \in DOMAIN result : result[i].transaction = transaction}
\* the difference, in cents, between the magnitude of the transaction's amount and
\* the receipt's amount
Difference(receipt, transaction) ==
    Abs(Abs(transaction.amount) - Val(receipt.extracted_amount))
\* the step function of the difference in cents: 60, 40, 20, 10, 0
StepOfDifference(d) ==
    CASE d = 0 -> 60
      [] 0 < d /\ d <= 100 -> 40
      [] 100 < d /\ d <= 500 -> 20
      [] 500 < d /\ d <= 1000 -> 10
      [] d > 1000 -> 0
\* the receipt has an amount only
AmountOnly(receipt) ==
    /\ receipt.extracted_amount # Null
    /\ receipt.extracted_date = Null
    /\ receipt.extracted_merchant = Null

Negated(pool) == [k \in DOMAIN pool |-> [pool[k] EXCEPT !.amount = -@]]
\* what a result says of each candidate, the transaction's amount left aside
Outcome(result) ==
    [i \in DOMAIN result |-> [id         |-> result[i].transaction.id,
                              date       |-> result[i].transaction.transaction_date,
                              description |-> result[i].transaction.description,
                              confidence |-> result[i].confidence,
                              reasons    |-> result[i].reasons,
                              amountDiff |-> result[i].amountDiff]]

\* C12: changing the sign of the transactions' amounts leaves every candidate's
\* confidence, reasons and amountDiff, and the order of the candidates, as they are;
\* a transaction of -100.00 scored against a receipt of 100.00 has amountDiff 0.
SignOfAmountIgnored ==
    Scored =>
        /\ Outcome(call.result) =
              Outcome(findPotentialMatches(call.receipt, Some(Negated(ScoredPool))))
        /\ \A i \in DOMAIN call.result :
              call.result[i].transaction.amount = -Val(call.receipt.extracted_amount)
                  => call.result[i].amountDiff = 0

\* a debit of 100.00 was scored against the receipt of 100.00 and returned with
\* amountDiff 0 and the points of an exact amount
ScoredDebitOfTheAmount ==
    /\ Scored
    /\ AmountOnly(call.receipt)
    /\ Len(ScoredPool) = 1
    /\ ScoredPool[1].amount = -10000
    /\ Len(call.result) = 1
    /\ call.result[1].amountDiff = 0
    /\ call.result[1].confidence = 60

\* both dates are present and parseable
BothDated(receipt, transaction) ==
    /\ receipt.extracted_date \notin {Null, Some("")}
    /\ transaction.transaction_date \notin {Null, Some("")}
    /\ ParseReceiptDate(Val(receipt.extracted_date)) # Null
    /\ ParseTransactionDate(Val(transaction.transaction_date)) # Null
\* the days between the two dates
DaysApart(receipt, transaction) ==
    Abs(Val(ParseReceiptDate(Val(receipt.extracted_date)))
          - Val(ParseTransactionDate(Val(transaction.transaction_date))))
\* the date contribution: 25, 15, 5 or 0
PointsOfDays(receipt, transaction) ==
    IF ~BothDated(receipt, transaction) THEN 0
    ELSE CASE DaysApart(receipt, transaction) = 0 -> 25
           [] DaysApart(receipt, transaction) = 1 -> 15
           [] DaysApart(receipt, transaction) \in {2, 3} -> 5
           [] OTHER -> 0
DateReasons == {<<"Same date">>, <<"Within 1 day">>, <<"Within 3 days">>}
DateReasonsOf(candidate) ==
    {i \in DOMAIN candidate.reasons : candidate.reasons[i] \in DateReasons}

\* C13: a returned transaction carries a date reason exactly when both dates are
\* present and parseable and at most 3 days apart, and, for a receipt without
\* merchant, its confidence is the amount's points plus 25 for the same day, 15 for
\* one day, 5 for two or three days and 0 when the dates are further apart, missing
\* or unparseable.
DateContributionIsStepOfDays ==
    Scored =>
        \A i \in DOMAIN call.result :
            /\ (DateReasonsOf(call.result[i]) # {})
                  = (PointsOfDays(call.receipt, call.result[i].transaction) > 0)
            /\ Cardinality(DateReasonsOf(call.result[i])) <= 1
            /\ call.receipt.extracted_merchant = Null
                  => call.result[i].confidence =
                        StepOfDifference(call.result[i].amountDiff)
                          + PointsOfDays(call.receipt, call.result[i].transaction)

\* a transaction three days after the receipt's date was returned with the 5 points
\* of the date on top of the 60 of the amount
ScoredThreeDaysApart ==
    /\ Scored
    /\ call.receipt.extracted_merchant = Null
    /\ call.receipt.extracted_date = Some("07/22/2025")
    /\ Len(ScoredPool) = 1
    /\ ScoredPool[1].transaction_date = Some("2025-07-25")
    /\ ScoredPool[1].amount = -10000
    /\ Len(call.result) = 1
    /\ call.result[1].confidence = 65
    /\ call.result[1].reasons = << <<"Exact amount match">>, <<"Within 3 days">> >>

\* the lower-cased tokens of a merchant name, those that are eligible, those that
\* the description contains and those of the latter that have 5 characters or more
Tokens(merchant) == SplitWs(toLowerCase(merchant), "", <<>>, FALSE)
EligibleTokens(tokens) ==
    {i \in DOMAIN tokens :
        Len(tokens[i]) > 2
          /\ tokens[i] \notin {"llc", "inc", "corp", "ltd", "company", "co"}}
MatchedTokens(tokens, description) ==
    {i \in EligibleTokens(tokens) : includes(toLowerCase(description), tokens[i])}
LongTokens(tokens, description) ==
    {i \in MatchedTokens(tokens, description) : Len(tokens[i]) >= 5}
\* merchant and description are both present
BothNamed(receipt, transaction) ==
    /\ receipt.extracted_merchant \notin {Null, Some("")}
    /\ transaction.description \notin {Null, Some("")}
\* m, n and s of a receipt and a transaction that are both named
CountM(receipt, transaction) ==
    Cardinality(MatchedTokens(Tokens(Val(receipt.extracted_merchant)),
                              Val(transaction.description)))
CountN(receipt) == Cardinality(EligibleTokens(Tokens(Val(receipt.extracted_merchant))))
CountS(receipt, transaction) ==
    Cardinality(LongTokens(Tokens(Val(receipt.extracted_merchant)),
                           Val(transaction.description)))
\* the points of amount and date
PointsBesideMerchant(receipt, candidate) ==
    StepOfDifference(candidate.amountDiff) + PointsOfDays(receipt, candidate.transaction)
\* confidence is base + min((m / n) * 15 + 5 * s, 20) rounded to the nearest
\* integer, halves upwards
RoundsMerchantPoints(confidence, base, m, n, s) ==
    /\ 2 * n * (confidence - base) - n <= 2 * Min(15 * m + 5 * s * n, 20 * n)
    /\ 2 * Min(15 * m + 5 * s * n, 20 * n) < 2 * n * (confidence - base) + n
MerchantReasonsOf(candidate) ==
    {i \in DOMAIN candidate.reasons : candidate.reasons[i][1] = "Merchant keywords match"}

\* C14: the confidence of a returned transaction is the points of amount and date
\* plus min((m / n) * 15 + 5 * s, 20), rounded, where n counts the merchant's
\* eligible tokens, m those found in the description and s those of the found that
\* have 5 characters or more; the merchant reason reports m and s; with m = 0, or
\* without merchant or description, nothing is added and there is no merchant reason.
MerchantContributionIsCappedShare ==
    Scored =>
        \A i \in DOMAIN call.result :
            IF BothNamed(call.receipt, call.result[i].transaction)
                 /\ CountM(call.receipt, call.result[i].transaction) > 0
            THEN /\ RoundsMerchantPoints(call.result[i].confidence,
                        PointsBesideMerchant(call.receipt, call.result[i]),
                        CountM(call.receipt, call.result[i].transaction),
                        CountN(call.receipt),
                        CountS(call.receipt, call.result[i].transaction))
                 /\ MerchantReasonsOf(call.result[i]) = {Len(call.result[i].reasons)}
                 /\ call.result[i].reasons[Len(call.result[i].reasons)] =
                        <<"Merchant keywords match",
                          CountM(call.receipt, call.result[i].transaction),
                          CountS(call.receipt, call.result[i].transaction)>>
            ELSE /\ call.result[i].confidence =
                        PointsBesideMerchant(call.receipt, call.result[i])
                 /\ MerchantReasonsOf(call.result[i]) = {}

\* one of the two eligible tokens of 'Acme Starlink' is in the description and has
\* 5 characters or more: 7.5 + 5 points on top of the 60 of the amount, 73 rounded
ScoredHalfTheTokens ==
    /\ Scored
    /\ call.receipt.extracted_merchant = Some("Acme Starlink")
    /\ call.receipt.extracted_date = Null
    /\ Len(ScoredPool) = 1
    /\ ScoredPool[1].description = Some("STARLINK INTERNET")
    /\ ScoredPool[1].amount = -10000
    /\ Len(call.result) = 1
    /\ call.result[1].confidence = 73
    /\ call.result[1].reasons =
          << <<"Exact amount match">>, <<"Merchant keywords match", 1, 1>> >>

\* the merchant counts for the pair: both are named and a token was found
MerchantCounts(receipt, transaction) ==
    BothNamed(receipt, transaction) /\ CountM(receipt, transaction) > 0
\* the points of amount and date of a receipt and a transaction
PointsOfAmountAndDate(receipt, transaction) ==
    StepOfDifference(Difference(receipt, transaction)) + PointsOfDays(receipt, transaction)
\* the three contributions sum to 10 or more
SumReachesTen(receipt, transaction) ==
    IF MerchantCounts(receipt, transaction)
    THEN PointsOfAmountAndDate(receipt, transaction) * CountN(receipt)
            + Min(15 * CountM(receipt, transaction)
                    + 5 * CountS(receipt, transaction) * CountN(receipt),
                  20 * CountN(receipt))
            >= 10 * CountN(receipt)
    ELSE PointsOfAmountAndDate(receipt, transaction) >= 10

\* C15: every returned candidate has confidence 10 or more, and a transaction of the
\* pool is returned, once, exactly when its contributions sum to 10 or more.
OnlySumsOfTenReturned ==
    Scored =>
        /\ \A i \in DOMAIN call.result :
              /\ call.result[i].confidence >= 10
              /\ \E k \in DOMAIN ScoredPool : ScoredPool[k] = call.result[i].transaction
        /\ \A k \in DOMAIN ScoredPool :
              Cardinality(CandidatesOf(call.result, ScoredPool[k])) =
                  IF SumReachesTen(call.receipt, ScoredPool[k]) THEN 1 ELSE 0

\* a transaction with 5 points of the date and 4.5 of the merchant, 9.5 in all, was
\* scored and is not in the result
ScoredBelowTen ==
    /\ Scored
    /\ call.receipt.extracted_merchant = Some("Star Link Net Aaa Bbb Ccc Ddd Eee Fff Ggg")
    /\ call.receipt.extracted_date = Some("07/22/2025")
    /\ Len(ScoredPool) = 1
    /\ ScoredPool[1].description = Some("STARLINK INTERNET")
    /\ ScoredPool[1].transaction_date = Some("2025-07-24")
    /\ ScoredPool[1].amount = -11001
    /\ call.result = <<>>

\* the place of a transaction in the pool that was scored
PlaceOf(pool, transaction) == CHOOSE k \in DOMAIN pool : pool[k] = transaction

\* C16: the candidates are returned by confidence, highest first, and candidates of
\* equal confidence in the order their transactions had in the list given.
ResultSortedAndStable ==
    Scored =>
        \A i, j \in DOMAIN call.result :
            i < j =>
                /\ call.result[i].confidence >= call.result[j].confidence
                /\ call.result[i].confidence = call.result[j].confidence
                      => PlaceOf(ScoredPool, call.result[i].transaction)
                           < PlaceOf(ScoredPool, call.result[j].transaction)

\* three transactions were scored; the first has the lowest confidence and is
\* returned last, the other two have the same confidence and keep their order
ScoredTieBehindLower ==
    /\ Scored
    /\ call.receipt.extracted_merchant = Null
    /\ call.receipt.extracted_date = Some("07/22/2025")
    /\ ScoredPool = <<PoolLedger[2], PoolLedger[3], PoolLedger[1]>>
    /\ Len(call.result) = 3
    /\ call.result[1].transaction = PoolLedger[3] /\ call.result[1].confidence = 85
    /\ call.result[2].transaction = PoolLedger[1] /\ call.result[2].confidence = 85
    /\ call.result[3].transaction = PoolLedger[2] /\ call.result[3].confidence = 75

\* the sum of the three contributions of a receipt and a transaction, rounded to the
\* nearest integer, halves upwards
RoundedSum(receipt, transaction) ==
    IF MerchantCounts(receipt, transaction)
    THEN (2 * (PointsOfAmountAndDate(receipt, transaction) * CountN(receipt)
                 + Min(15 * CountM(receipt, transaction)
                         + 5 * CountS(receipt, transaction) * CountN(receipt),
                       20 * CountN(receipt)))
            + CountN(receipt)) \div (2 * CountN(receipt))
    ELSE PointsOfAmountAndDate(receipt, transaction)
\* the transaction of the ledger that has the id
TransactionWithId(ledger, id) ==
    ledger[CHOOSE k \in DOMAIN ledger : ledger[k].id = id]

\* C17: nothing limits the confidence to 100.  Every candidate's confidence is the
\* integer nearest to the sum of its amount points (60 at most), date points (25 at
\* most) and merchant points (20 at most) and so never exceeds 105, and the row the
\* bulk auto-match writes carries that confidence as it is.
ConfidenceIsRoundedSumUpTo105 ==
    /\ Scored =>
          \A i \in DOMAIN call.result :
              /\ call.result[i].confidence \in 0..105
              /\ call.result[i].confidence =
                    RoundedSum(call.receipt, call.result[i].transaction)
              /\ StepOfDifference(call.result[i].amountDiff) <= 60
              /\ PointsOfDays(call.receipt, call.result[i].transaction) <= 25
    /\ \A row \in BagToSet(matches) :
          row.match_status = "auto_matched" =>
              row.match_confidence =
                  RoundedSum(Val(receipts[row.receipt_id]),
                             TransactionWithId(transactions, row.transaction_id))

\* a transaction of the receipt's amount and date whose description has every token
\* of the merchant was returned with confidence 105, and the bulk auto-match has
\* written its row with confidence 105
StoredAbove100 ==
    /\ Scored
    /\ Len(call.result) > 0
    /\ call.result[1].confidence = 105
    /\ call.result[1].reasons =
          << <<"Exact amount match">>, <<"Same date">>, <<"Merchant keywords match", 1, 1>> >>
    /\ \E row \in BagToSet(matches) :
          /\ row.match_status = "auto_matched"
          /\ row.transaction_id = call.result[1].transaction.id
          /\ row.match_confidence = 105

\* C28: a transaction is in the result exactly when the unrounded sum of its three
\* contributions is 10 or more, and what is reported for it is that sum rounded: a
\* transaction whose sum is 9.5 or more and less than 10 is left out although the
\* sum rounds to 10.
InclusionOnUnroundedSum ==
    Scored =>
        \A k \in DOMAIN ScoredPool :
            /\ CandidatesOf(call.result, ScoredPool[k]) # {}
                  <=> SumReachesTen(call.receipt, ScoredPool[k])
            /\ \A i \in CandidatesOf(call.result, ScoredPool[k]) :
                  call.result[i].confidence = RoundedSum(call.receipt, ScoredPool[k])
            /\ (/\ RoundedSum(call.receipt, ScoredPool[k]) = 10
                /\ ~SumReachesTen(call.receipt, ScoredPool[k]))
                  => \A i \in DOMAIN call.result : call.result[i].transaction # ScoredPool[k]

\* a transaction whose sum rounds to 10 without reaching 10 was scored, alone, and
\* nothing was returned
ScoredRoundingToTen ==
    /\ Scored
    /\ Len(ScoredPool) = 1
    /\ RoundedSum(call.receipt, ScoredPool[1]) = 10
    /\ ~SumReachesTen(call.receipt, ScoredPool[1])
    /\ call.result = <<>>

\* C30: the copy of findPotentialMatches in receipts.js returns, for the receipt and
\* the list that were scored, what the copy in matches.js has returned: the same
\* candidates with the same confidence, reasons and amountDiff in the same order;
\* and the single-receipt auto-match decides for the receipt over that list what a
\* bulk run of threshold 70 decides.
CopiesOfScoringAgree ==
    (call.op = "findPotentialMatches" /\ call.returned) =>
        /\ findPotentialMatchesOfReceipts(call.receipt, call.transactions) = call.result
        /\ call.transactions # Null
              => SingleAutoMatchDecision(call.receipt, Val(call.transactions))
                    = AutoMatchDecision(call.receipt, Val(call.transactions), 70)

\* three transactions were scored and ranked, the first of confidence 70 or more and
\* two of equal confidence among them, and the other copy ranks them the same
ScoredAlikeByBothCopies ==
    /\ Scored
    /\ Len(call.result) = 3
    /\ call.result[1].confidence >= 70
    /\ \E i \in 1..2 : call.result[i].confidence = call.result[i + 1].confidence
    /\ findPotentialMatchesOfReceipts(call.receipt, call.transactions) = call.result
    /\ SingleAutoMatchDecision(call.receipt, ScoredPool) # <<>>

(***************************************************************************)
(* The ledger import.                                                      *)
(***************************************************************************)
\* a stored transaction has the date, the description and the amount of the row
StoredAlready(ledger, row) ==
    \E k \in DOMAIN ledger :
        /\ ledger[k].transaction_date = Some(row.transaction_date)
        /\ ledger[k].description = Some(row.description)
        /\ ledger[k].amount = row.amount
\* the step that executes the insert of the next row of the import in flight
InsertsNextRow ==
    call.op = "import" /\ call.pc = "running" /\ call'.done = call.done + 1

\* C21: the insert of a row whose date, description and amount are those of a stored
\* transaction, and every insert of an import of the file that was imported just
\* before, adds no transaction and counts the row as skipped.
ImportAddsNoDuplicate ==
    [][InsertsNextRow =>
          ((StoredAlready(transactions, call.queued[call.done + 1]) \/ call.again)
              => /\ transactions' = transactions
                 /\ call'.skipCount = call.skipCount + 1)]_vars

\* every insert of an import of the file that was imported just before adds no
\* transaction
SameFileAgainAddsNothing ==
    [][(InsertsNextRow /\ call.again) => transactions' = transactions]_vars

(***************************************************************************)
(* The auto-match policy.                                                  *)
(***************************************************************************)
RowsOfPair(rows, transaction_id, receipt_id) ==
    {m \in BagToSet(rows) : SamePair(m, transaction_id, receipt_id)}

\* the Match row the policy writes for an upsert u
AutoMatchedRow(u) ==
    [transaction_id |-> u.transaction_id, receipt_id |-> u.receipt_id,
     match_confidence |-> u.match_confidence, match_status |-> "auto_matched",
     user_confirmed |-> FALSE]

TopCandidateUpsert(receipt, candidates, threshold) ==
    IF Len(candidates) > 0 /\ candidates[1].confidence >= threshold
    THEN << [transaction_id   |-> candidates[1].transaction.id,
             receipt_id       |-> receipt.id,
             match_confidence |-> candidates[1].confidence] >>
    ELSE <<>>

RECURSIVE TopCandidateUpserts(_, _, _)
TopCandidateUpserts(list, pool, threshold) ==
    IF list = <<>> THEN <<>>
    ELSE TopCandidateUpsert(Head(list), findPotentialMatches(Head(list), Some(pool)), threshold)
            \o TopCandidateUpserts(Tail(list), pool, threshold)

\* the step writes the row of upsert u, and touches the rows of no other pair
UpsertsOnly(u) ==
    /\ RowsOfPair(matches', u.transaction_id, u.receipt_id) = {AutoMatchedRow(u)}
    /\ CopiesIn(AutoMatchedRow(u), matches') = 1
    /\ \A m \in BagToSet(matches) \cup BagToSet(matches') :
          ~SamePair(m, u.transaction_id, u.receipt_id)
          => CopiesIn(m, matches') = CopiesIn(m, matches)

\* C4: for each receipt the auto-match policy processes, in the bulk and in the
\* single-receipt path: when the first candidate of the ranked list has confidence
\* >= the threshold exactly one upsert is issued, which writes the row (top candidate's
\* transaction, this receipt, auto_matched, user_confirmed false, the candidate's
\* confidence) and changes no other row; otherwise no upsert is issued for the receipt
\* and no row is created or changed.
AutoMatchUpsertsTopCandidate ==
    [][/\ (bulk.pc = "receipts" /\ bulk'.pc = "running")
            => /\ bulk'.issued = TopCandidateUpserts(bulk.receipts,
                                    UnmatchedTransactions(transactions, matches),
                                    bulk.threshold)
               /\ matches' = matches
       /\ \A i \in 1..Len(bulk.outcome) :
            (bulk.pc = "running" /\ bulk.outcome[i] = "pending" /\ bulk'.outcome[i] = "ok")
            => UpsertsOnly(bulk.issued[i])
       /\ \A r \in ReceiptIds :
            /\ (single[r].pc = "txs" /\ single'[r].pc # "txs")
                 => LET issued == TopCandidateUpsert(Val(single[r].receipt),
                                     findPotentialMatches(Val(single[r].receipt),
                                         Some(RecentUnmatchedTransactions(transactions, matches))),
                                     SingleThreshold)
                    IN  /\ matches' = matches
                        /\ IF issued = <<>> THEN single'[r].pc = "idle"
                           ELSE single'[r].pc = "run" /\ single'[r].upsert = Some(issued[1])
            /\ (single[r].pc = "run" /\ single'[r].pc # "run")
                 => (matches' = matches \/ UpsertsOnly(Val(single[r].upsert)))]_vars

\* a bulk run over two receipts has matched the one whose top candidate reaches the
\* threshold and has written nothing for the other
OneReceiptOfTwoMatched ==
    /\ bulk.response # Null
    /\ Len(bulk.receipts) = 2
    /\ Len(bulk.issued) = 1
    /\ bulk.outcome[1] = "ok"
    /\ \E m \in Rows : m = AutoMatchedRow(bulk.issued[1])
    /\ \A m \in Rows : m.receipt_id = bulk.receipts[1].id

\* C22: a bulk run that is started with a threshold applies that threshold, 0
\* included, one that is started with none applies 70, and the response reports the
\* threshold that was applied.
SuppliedThresholdApplied ==
    [][/\ \A input \in ThresholdInputs :
            BulkStart(input) =>
                bulk'.threshold = (IF input = Null THEN 70 ELSE Val(input))
       /\ BulkFinalize => Val(bulk'.response).threshold = bulk.threshold]_vars

\* a step in which an auto-match run, bulk or single, executes one of its upserts
AutoMatchUpsertStep ==
    \/ \E err \in BOOLEAN : BulkUpsertDone(err)
    \/ \E r \in ReceiptIds, err \in BOOLEAN : SingleUpsertDone(r, err)

\* C24: no upsert of an auto-match run, bulk or single, changes or replaces a row
\* that is user-confirmed when the upsert executes, whatever was confirmed between
\* the run's reading of its pools and the upsert.
ConfirmedRowsSurviveAutoMatch ==
    [][AutoMatchUpsertStep =>
          \A m \in BagToSet(matches) :
              m.user_confirmed => BagIn(m, matches') /\ matches'[m] = matches[m]]_vars

(***************************************************************************)
(* The admins of a company.                                                *)
(***************************************************************************)
\* the step is the write of a role change or of a removal that takes the last active
\* admin away from a company that has one
TakesLastAdmin(u) ==
    /\ call.requests[u].pc \in {"update", "delete"}
    /\ call'.requests[u].pc = "idle"
    /\ ActiveAdmins(call.user_companies) = {call.requests[u].userId}
    /\ call.requests[u].pc = "update" => call.requests[u].role # "admin"

\* C25: a company with an active admin has one after every step of the remove-user
\* and change-role requests of its admins, however they interleave, and the write of
\* a request that would take the last active admin away is answered with an error
\* and leaves the memberships as they were.
CompanyKeepsAnAdmin ==
    [][/\ ActiveAdmins(call.user_companies) # {}
              => ActiveAdmins(call'.user_companies) # {}
       /\ \A u \in UserIds :
              TakesLastAdmin(u) => /\ call'.user_companies = call.user_companies
                                   /\ Val(call'.requests[u].response) >= 400]_vars

\* the ids of the rows of a pool
IdsOf(pool) == {pool[i].id : i \in 1..Len(pool)}
\* the rejected rows of the pair of upsert u
RejectedOfPair(rows, u) ==
    {m \in RowsOfPair(rows, u.transaction_id, u.receipt_id) : m.match_status = "rejected"}
\* the step rejects row m, which leaves its transaction and its receipt in the
\* unmatched pools unless a confirmed row names them, and takes nothing out of them
RejectKeepsInPools(m) ==
    /\ IdsOf(UnmatchedTransactions(transactions, matches))
          \subseteq IdsOf(UnmatchedTransactions(transactions, matches'))
    /\ IdsOf(UnmatchedReceipts(receipts, matches))
          \subseteq IdsOf(UnmatchedReceipts(receipts, matches'))
    /\ (\A c \in BagToSet(matches') : c.user_confirmed => c.transaction_id # m.transaction_id)
          => m.transaction_id \in IdsOf(UnmatchedTransactions(transactions, matches'))
    /\ (\A c \in BagToSet(matches') : c.user_confirmed => c.receipt_id # m.receipt_id)
          => m.receipt_id \in IdsOf(UnmatchedReceipts(receipts, matches'))

\* the upsert decided, if any, is one of the transaction
ChoosesTransaction(upsert, transaction_id) ==
    upsert # <<>> /\ upsert[1].transaction_id = transaction_id

\* C26: rejecting a Match row takes neither its receipt nor its transaction out of
\* the unmatched pools, and a later bulk run, nothing else acting meanwhile, that
\* finds the transaction of a rejected row to be the top candidate of its receipt at
\* or above the threshold issues the upsert of the pair, which replaces the rejected
\* row by one row of status auto_matched with user_confirmed false.
RejectedPairMatchedAgain ==
    [][/\ \A m \in Rows : RejectMatch(m) => RejectKeepsInPools(m)
       /\ (BulkReadTransactions /\ lastRun.clean) =>
             \A i \in 1..Len(bulk.receipts), m \in Rows :
                 (/\ m.match_status = "rejected"
                  /\ m.receipt_id = bulk.receipts[i].id
                  /\ ChoosesTransaction(
                         TopCandidateUpsert(
                             bulk.receipts[i],
                             findPotentialMatches(bulk.receipts[i],
                                                  Some(UnmatchedTransactions(transactions, matches))),
                             bulk.threshold),
                         m.transaction_id))
                 => \E k \in 1..Len(bulk'.issued) :
                       /\ bulk'.issued[k].transaction_id = m.transaction_id
                       /\ bulk'.issued[k].receipt_id = m.receipt_id
       /\ (BulkUpsertDone(FALSE) /\ lastRun.clean) =>
             \A i \in Pending(bulk) :
                 (/\ bulk'.outcome[i] = "ok"
                  /\ RejectedOfPair(matches, bulk.issued[i]) # {})
                 => /\ UpsertsOnly(bulk.issued[i])
                    /\ RejectedOfPair(matches', bulk.issued[i]) = {}]_vars

\* a bulk run, nothing else acting since it began, has issued the upsert of a pair
\* whose row is rejected
RejectedPairChosen ==
    /\ lastRun.clean
    /\ bulk.pc = "running"
    /\ \E i \in Pending(bulk) : RejectedOfPair(matches, bulk.issued[i]) # {}

\* the upserts issued for the receipt
RECURSIVE UpsertsFor(_, _)
UpsertsFor(issued, receipt_id) ==
    IF issued = <<>> THEN <<>>
    ELSE (IF Head(issued).receipt_id = receipt_id THEN <<Head(issued)>> ELSE <<>>)
            \o UpsertsFor(Tail(issued), receipt_id)

\* C27: what a bulk run issues for a receipt is what the policy decides for that
\* receipt alone over the whole pool of transactions the run has read, whatever the
\* other receipts are and whatever was chosen for them; the pool is not reduced, and
\* two receipts can be auto-matched to the same transaction in one run.
ReceiptsDecidedIndependently ==
    [][BulkReadTransactions =>
          \A i \in 1..Len(bulk.receipts) :
              UpsertsFor(bulk'.issued, bulk.receipts[i].id)
                  = TopCandidateUpsert(
                        bulk.receipts[i],
                        findPotentialMatches(bulk.receipts[i],
                                             Some(UnmatchedTransactions(transactions, matches))),
                        bulk.threshold)]_vars

\* a bulk run has auto-matched two receipts to the same transaction
TwoReceiptsOnOneTransaction ==
    /\ bulk.pc = "running"
    /\ Len(bulk.issued) = 2
    /\ bulk.outcome = <<"ok", "ok">>
    /\ bulk.issued[1].receipt_id # bulk.issued[2].receipt_id
    /\ bulk.issued[1].transaction_id = bulk.issued[2].transaction_id
    /\ \A i \in 1..2 : CopiesIn(AutoMatchedRow(bulk.issued[i]), matches) = 1
====
